---- MODULE Spec2Model ----
(***************************************************************************)
(* Work-item storage, query cache, date filters and ingestion pipeline of  *)
(* the cognitiveoffload server (server/storage.ts, server/routes.ts).      *)
(*                                                                         *)
(* Conventions of the model                                                *)
(*   - a point in time is its epoch in milliseconds (a Date is its         *)
(*     getTime()); Undefined (-1) is JS undefined / SQL NULL, InvalidDate  *)
(*     (-2) is a Date whose epoch is NaN;                                  *)
(*   - an async function is cut at its awaits: the code between two awaits *)
(*     is one action, a database statement executes in the action that     *)
(*     ends with its await;                                                *)
(*   - the database table work_items is the set workItems of rows.         *)
(***************************************************************************)
EXTENDS Integers, Sequences, FiniteSets, TLC

VARIABLES
    now,            \* Date.now() of the server, ms
    tz,             \* offset of the server's local time from UTC, ms
    workItems,      \* rows of table work_items
    nextId,         \* the serial of work_items.id
    workItemsCache, \* the Map workItemsCache: key -> [data, timestamp]
    readers,        \* calls of GET /api/work-items and storage.getWorkItems
    writers,        \* calls of POST / PUT / DELETE /api/work-items
    runs,           \* calls of processGmailEmails / processSlackMessages
    upstream,       \* per source, the messages its fetcher returns
    oauth,          \* oauth.ts: the rate-limit state, the secureFetch calls, the fetchers
    clients,        \* websocket.ts: the Map clients and what each listener received
    version,        \* history: number of committed changes of work_items
    mutated,        \* history: per user, the last completed mutation
    ticks,          \* number of clock advances taken
    faults          \* number of failed storage statements so far

vars == <<now, tz, workItems, nextId, workItemsCache, readers, writers, runs,
          upstream, oauth, clients, version, mutated, ticks, faults>>

----------------------------------------------------------------------------
(* Values *)

Undefined == 0 - 1
InvalidDate == 0 - 2
UndefStr == "<undefined>"

HOUR == 60 * 60 * 1000
DAY == 24 * HOUR
D(day, hour) == day * DAY + hour * HOUR

CACHE_TTL == 10000
SEVEN_DAYS == 7 * 24 * 60 * 60 * 1000
ONE_DAY == 24 * 60 * 60 * 1000

Users == {1, 12}

\* bounds of the model
MaxItems == 2
MaxTicks == 2
MaxFaults == 1
MaxWrites == 2
MaxLen == 4
MaxCalls == 2

Min(a, b) == IF a < b THEN a ELSE b

----------------------------------------------------------------------------
(* Pure helpers of server/storage.ts *)

\* Decimal digits of a user id, as `${userId}` renders them.
RECURSIVE Digits(_)
Digits(n) ==
    IF n < 10 THEN <<n>> ELSE Digits(n \div 10) \o <<n % 10>>

\* `${userId}-` : the digits followed by the separator (coded 10).
UserPrefix(userId) == Digits(userId) \o <<10>>

BoolStr(b) == IF b THEN "true" ELSE "false"

isValidDate(date) == date >= 0

\* getCacheKey: the key string, as its leading `${userId}-` and the six
\* fields that follow.  toISOString is injective on valid dates, so a date
\* field is its epoch; 'all' is Undefined for numbers and "all" for strings.
getCacheKey(userId, options) ==
    [head |-> UserPrefix(userId),
     rest |-> << IF options.limit = Undefined \/ options.limit = 0 THEN 50 ELSE options.limit,
                 IF options.offset = Undefined THEN 0 ELSE options.offset,
                 IF options.classification \in {UndefStr, ""} THEN "all" ELSE options.classification,
                 IF options.isCompleted = UndefStr THEN "all" ELSE options.isCompleted,
                 options.startDate,
                 options.endDate >>]

\* Variant: an entry of age exactly CACHE_TTL still counts as valid.
isCacheValid_Inclusive(timestamp, dateNow) == dateNow - timestamp <= CACHE_TTL

isCacheValid(timestamp, dateNow) == dateNow - timestamp < CACHE_TTL

\* key.startsWith(prefix) on the key string: the prefix `${u}-` never
\* reaches past the head of a key (a digit never equals the separator).
StartsWith(key, prefix) ==
    /\ Len(prefix) <= Len(key.head)
    /\ SubSeq(key.head, 1, Len(prefix)) = prefix

\* Date.prototype.toDateString: the local calendar day.
toDateString(date, offset) == (date + offset) \div DAY

\* A drizzle date predicate on (sourceDate, createdAt):
\*   nulls   : isNull(sourceDate) is one disjunct
\*   lo, hi  : gte(sourceDate, lo) / lt(sourceDate, hi), Undefined when absent
\*   created : and(gte(createdAt, lo), lt(createdAt, hi)) is one disjunct
DateFilter(nulls, lo, hi, created) ==
    [nulls |-> nulls, lo |-> lo, hi |-> hi, created |-> created]

NotNullFilter == DateFilter(FALSE, Undefined, Undefined, FALSE)

\* Variant: the upper bound is lte(sourceDate, hi) instead of lt.
FilterMatches_InclusiveEnd(f, item) ==
    \/ f.nulls /\ item.sourceDate = Undefined
    \/ /\ item.sourceDate # Undefined
       /\ f.lo = Undefined \/ item.sourceDate >= f.lo
       /\ f.hi = Undefined \/ item.sourceDate <= f.hi
    \/ /\ f.created
       /\ item.createdAt # Undefined
       /\ item.createdAt >= f.lo
       /\ item.createdAt < f.hi

\* SQL evaluation of a date predicate on a row (a comparison with NULL is
\* not true).
FilterMatches(f, item) ==
    \/ f.nulls /\ item.sourceDate = Undefined
    \/ /\ item.sourceDate # Undefined
       /\ f.lo = Undefined \/ item.sourceDate >= f.lo
       /\ f.hi = Undefined \/ item.sourceDate < f.hi
    \/ /\ f.created
       /\ item.createdAt # Undefined
       /\ item.createdAt >= f.lo
       /\ item.createdAt < f.hi

\* Variant: the trailing-7-days branch is tried before the today branch.
buildDateFilters_RecentFirst(startDate, endDate, includeNullDates, today, offset) ==
    IF startDate # Undefined /\ isValidDate(startDate)
       /\ endDate # Undefined /\ isValidDate(endDate)
    THEN << DateFilter(includeNullDates, startDate, endDate, FALSE) >>
    ELSE IF startDate # Undefined /\ isValidDate(startDate)
    THEN LET isTodayFilter == toDateString(startDate, offset) = toDateString(today, offset)
             sevenDaysAgo == today - SEVEN_DAYS
             isRecentFilter == startDate >= sevenDaysAgo /\ startDate <= today
         IN  IF isRecentFilter
             THEN << DateFilter(FALSE, startDate, today + ONE_DAY, TRUE) >>
             ELSE IF isTodayFilter
             THEN << DateFilter(FALSE, startDate, startDate + ONE_DAY, TRUE) >>
             ELSE << DateFilter(includeNullDates, startDate, Undefined, FALSE) >>
    ELSE IF endDate # Undefined /\ isValidDate(endDate)
    THEN << DateFilter(includeNullDates, Undefined, endDate, FALSE) >>
    ELSE << >>

buildDateFilters(startDate, endDate, includeNullDates, today, offset) ==
    IF startDate # Undefined /\ isValidDate(startDate)
       /\ endDate # Undefined /\ isValidDate(endDate)
    THEN << DateFilter(includeNullDates, startDate, endDate, FALSE) >>
    ELSE IF startDate # Undefined /\ isValidDate(startDate)
    THEN LET isTodayFilter == toDateString(startDate, offset) = toDateString(today, offset)
             sevenDaysAgo == today - SEVEN_DAYS
             isRecentFilter == startDate >= sevenDaysAgo /\ startDate <= today
         IN  IF isTodayFilter
             THEN << DateFilter(FALSE, startDate, startDate + ONE_DAY, TRUE) >>
             ELSE IF isRecentFilter
             THEN << DateFilter(FALSE, startDate, today + ONE_DAY, TRUE) >>
             ELSE << DateFilter(includeNullDates, startDate, Undefined, FALSE) >>
    ELSE IF endDate # Undefined /\ isValidDate(endDate)
    THEN << DateFilter(includeNullDates, Undefined, endDate, FALSE) >>
    ELSE << >>

\* validateWorkItem: a row read back needs a truthy numeric id and userId.
validateWorkItem(item) == item.id # 0 /\ item.userId # 0

----------------------------------------------------------------------------
(* The query of DatabaseStorage.getWorkItems *)

\* The options object of getWorkItems.
Options(limit, offset, classification, isCompleted, startDate, endDate) ==
    [limit |-> limit, offset |-> offset, classification |-> classification,
     isCompleted |-> isCompleted, startDate |-> startDate, endDate |-> endDate]

NoOptions == Options(Undefined, Undefined, UndefStr, UndefStr, Undefined, Undefined)

\* whereConditions: eq(userId), the optional eq(classification) and
\* eq(isCompleted), and the date filters (or isNotNull(sourceDate) when
\* buildDateFilters returns none).
WhereConditions(userId, options, today, offset) ==
    LET dateFilters == buildDateFilters(options.startDate, options.endDate, FALSE, today, offset)
    IN  [userId |-> userId,
         classification |-> IF options.classification \in {UndefStr, ""}
                            THEN UndefStr ELSE options.classification,
         isCompleted |-> options.isCompleted,
         dates |-> IF Len(dateFilters) > 0 THEN dateFilters ELSE << NotNullFilter >>,
         limit |-> IF options.limit # Undefined /\ options.limit > 0 THEN options.limit ELSE Undefined,
         offset |-> IF options.offset # Undefined /\ options.offset > 0 THEN options.offset ELSE Undefined]

NoWhere == [userId |-> 0, classification |-> UndefStr, isCompleted |-> UndefStr,
            dates |-> << >>, limit |-> Undefined, offset |-> Undefined]

\* and(...whereConditions) on one row.
RowMatches(where, item) ==
    /\ item.userId = where.userId
    /\ where.classification = UndefStr \/ item.classification = where.classification
    /\ where.isCompleted = UndefStr \/ BoolStr(item.isCompleted) = where.isCompleted
    /\ \A i \in 1..Len(where.dates) : FilterMatches(where.dates[i], item)

Selected(where, table) == {item \in table : RowMatches(where, item)}

\* orderBy(desc(urgencyScore), desc(createdAt)): a sorts strictly before b.
Before(a, b) ==
    \/ a.urgencyScore > b.urgencyScore
    \/ a.urgencyScore = b.urgencyScore /\ a.createdAt > b.createdAt

\* Every order the database may return the rows in: rows that tie come in
\* any order.
RECURSIVE OrderBy(_)
OrderBy(S) ==
    IF S = {} THEN { << >> }
    ELSE UNION { { <<x>> \o t : t \in OrderBy(S \ {x}) } :
                 x \in { y \in S : \A z \in S : ~Before(z, y) } }

\* .offset(n) then .limit(n) on the ordered rows.
Page(rows, limit, offset) ==
    LET from == IF offset = Undefined THEN 1 ELSE offset + 1
        upto == IF limit = Undefined THEN Len(rows) ELSE Min(Len(rows), from + limit - 1)
    IN  SubSeq(rows, from, upto)

QueryResults(where, table) ==
    { Page(rows, where.limit, where.offset) : rows \in OrderBy(Selected(where, table)) }

Range(s) == { s[i] : i \in 1..Len(s) }

\* Variant: the prefix is `${userId}` alone, without the separator.
clearWorkItemsCache_NoSeparator(cache, userId) ==
    LET keysToDelete == { key \in DOMAIN cache : StartsWith(key, Digits(userId)) }
    IN  [key \in (DOMAIN cache) \ keysToDelete |-> cache[key]]

\* clearWorkItemsCache: delete every key that starts with `${userId}-`.
clearWorkItemsCache(cache, userId) ==
    LET keysToDelete == { key \in DOMAIN cache : StartsWith(key, UserPrefix(userId)) }
    IN  [key \in (DOMAIN cache) \ keysToDelete |-> cache[key]]

CachePut(cache, key, entry) ==
    [k \in (DOMAIN cache) \cup {key} |-> IF k = key THEN entry ELSE cache[k]]

EmptyCache == [k \in {} |-> 0]

----------------------------------------------------------------------------
(* DatabaseStorage.getWorkItems and GET /api/work-items *)

Readers == {"r1"}

NoKey == [head |-> << >>, rest |-> << >>]

\* A reader between calls.  kind, status and data describe the last return;
\* entryTs, begunAt, need and queried are history of the call: the timestamp
\* of the cache entry found under the key, Date.now() when the call began,
\* the table version the call has to reflect, whether storage was queried;
\* asked (history) is the isCompleted string of the request, UndefStr when
\* the request had none or the call did not come from the route.
IdleReader ==
    [pc |-> "idle", via |-> "", userId |-> 0, options |-> NoOptions,
     key |-> NoKey, where |-> NoWhere, rows |-> << >>, ver |-> 0,
     kind |-> "none", status |-> 0, data |-> << >>,
     entryTs |-> Undefined, begunAt |-> Undefined, need |-> 0, queried |-> FALSE,
     asked |-> UndefStr]

\* The version that a read of userId beginning now has to reflect: that of
\* the last completed mutation of the user's items, once CACHE_TTL old.
NeedVersion(userId) ==
    IF userId \in DOMAIN mutated /\ mutated[userId].at # Undefined
       /\ now - mutated[userId].at >= CACHE_TTL
    THEN mutated[userId].ver ELSE 0

\* getWorkItems up to its first await: input validation, the cache lookup
\* and, on a miss, the construction of the query.
getWorkItemsBegin(r, via, userId, options0, asked) ==
    LET options == [options0 EXCEPT
                      !.startDate = IF @ # Undefined /\ ~isValidDate(@) THEN Undefined ELSE @,
                      !.endDate = IF @ # Undefined /\ ~isValidDate(@) THEN Undefined ELSE @]
        cacheKey == getCacheKey(userId, options)
        cached == cacheKey \in DOMAIN workItemsCache
        call == [IdleReader EXCEPT !.via = via, !.userId = userId, !.options = options,
                                   !.begunAt = now, !.need = NeedVersion(userId),
                                   !.status = IF via = "route" THEN 200 ELSE 0,
                                   !.asked = asked]
    IN  /\ readers[r].pc = "idle"
        /\ readers' = [readers EXCEPT ![r] =
             IF userId <= 0
             THEN [call EXCEPT !.pc = "done", !.kind = "invalid_user"]
             ELSE IF /\ options.startDate # Undefined /\ options.endDate # Undefined
                     /\ options.startDate >= options.endDate
             THEN [call EXCEPT !.pc = "done", !.kind = "invalid_range"]
             ELSE IF cached /\ isCacheValid(workItemsCache[cacheKey].timestamp, now)
             THEN [call EXCEPT !.pc = "done", !.kind = "hit", !.key = cacheKey,
                               !.data = workItemsCache[cacheKey].data,
                               !.ver = workItemsCache[cacheKey].ver,
                               !.entryTs = workItemsCache[cacheKey].timestamp]
             ELSE [call EXCEPT !.pc = "query", !.key = cacheKey,
                               !.where = WhereConditions(userId, options, now, tz),
                               !.entryTs = IF cached THEN workItemsCache[cacheKey].timestamp
                                           ELSE Undefined]]
        /\ UNCHANGED <<now, tz, workItems, nextId, workItemsCache, writers, runs, upstream, oauth,
                       version, mutated, ticks, faults, clients>>

\* A direct call of storage.getWorkItems (debug routes, tests).
StorageGetWorkItems(r, userId, options) ==
    getWorkItemsBegin(r, "direct", userId, options, UndefStr)

\* parseDateParam: an unparsable string is dropped.
parseDateParam(date) == IF date = Undefined \/ ~isValidDate(date) THEN Undefined ELSE date

\* Variant: the route hands an inverted range on to storage.getWorkItems.
RouteGetWorkItems_NoRangeCheck(r, userId, query) ==
    LET limit == IF query.limit \in {Undefined, 0} THEN 50 ELSE query.limit
        offset == IF query.offset \in {Undefined, 0} THEN 0 ELSE query.offset
        isCompleted == BoolStr(query.isCompleted = "true")
        startDate == parseDateParam(query.startDate)
        endDate == parseDateParam(query.endDate)
    IN  getWorkItemsBegin(r, "route", userId,
            Options(limit, offset, query.classification, isCompleted, startDate, endDate),
            query.isCompleted)

\* GET /api/work-items: query parameters to options, the range check, then
\* storage.getWorkItems.  query holds parseInt(limit), parseInt(offset)
\* (Undefined for NaN), the classification and isCompleted strings and the
\* Dates of the start and end strings.
RouteGetWorkItems(r, userId, query) ==
    LET limit == IF query.limit \in {Undefined, 0} THEN 50 ELSE query.limit
        offset == IF query.offset \in {Undefined, 0} THEN 0 ELSE query.offset
        isCompleted == BoolStr(query.isCompleted = "true")
        startDate == parseDateParam(query.startDate)
        endDate == parseDateParam(query.endDate)
    IN  IF startDate # Undefined /\ endDate # Undefined /\ startDate >= endDate
        THEN /\ readers[r].pc = "idle"
             /\ readers' = [readers EXCEPT ![r] =
                   [IdleReader EXCEPT !.pc = "done", !.via = "route", !.userId = userId,
                                      !.options = Options(limit, offset, query.classification,
                                                          isCompleted, startDate, endDate),
                                      !.begunAt = now, !.kind = "bad_request", !.status = 400,
                                      !.asked = query.isCompleted]]
             /\ UNCHANGED <<now, tz, workItems, nextId, workItemsCache, writers, runs, upstream, oauth,
                            version, mutated, ticks, faults, clients>>
        ELSE getWorkItemsBegin(r, "route", userId,
                 Options(limit, offset, query.classification, isCompleted, startDate, endDate),
                 query.isCompleted)

\* await queryBuilder: the database evaluates the query on the table as it
\* is now.
getWorkItemsQuery(r) ==
    /\ readers[r].pc = "query"
    /\ \E rows \in QueryResults(readers[r].where, workItems) :
          readers' = [readers EXCEPT ![r].pc = "resp", ![r].rows = rows,
                                     ![r].ver = version, ![r].queried = TRUE]
    /\ UNCHANGED <<now, tz, workItems, nextId, workItemsCache, writers, runs, upstream, oauth,
                   version, mutated, ticks, faults, clients>>

\* await queryBuilder rejects: getWorkItems catches and returns [].
getWorkItemsQueryFails(r) ==
    /\ readers[r].pc = "query"
    /\ faults < MaxFaults
    /\ faults' = faults + 1
    /\ readers' = [readers EXCEPT ![r].pc = "done", ![r].kind = "error",
                                  ![r].queried = TRUE]
    /\ UNCHANGED <<now, tz, workItems, nextId, workItemsCache, writers, runs, upstream, oauth,
                   version, mutated, ticks, clients>>

\* getWorkItems after the await: drop invalid rows, cache, return.
getWorkItemsEnd(r) ==
    LET validItems == SelectSeq(readers[r].rows, validateWorkItem)
    IN  /\ readers[r].pc = "resp"
        /\ workItemsCache' = CachePut(workItemsCache, readers[r].key,
                                [data |-> validItems, timestamp |-> now, ver |-> readers[r].ver])
        /\ readers' = [readers EXCEPT ![r].pc = "done", ![r].kind = "miss",
                                      ![r].data = validItems, ![r].rows = << >>]
        /\ UNCHANGED <<now, tz, workItems, nextId, writers, runs, upstream, oauth,
                       version, mutated, ticks, faults, clients>>

\* The caller takes the result; the reader is free for the next call.
ReaderReturn(r) ==
    /\ readers[r].pc = "done"
    /\ readers' = [readers EXCEPT ![r] = IdleReader]
    /\ UNCHANGED <<now, tz, workItems, nextId, workItemsCache, writers, runs, upstream, oauth,
                   version, mutated, ticks, faults, clients>>

----------------------------------------------------------------------------
(* The table work_items and the mutations of DatabaseStorage *)

NoRow == [id |-> 0, userId |-> 0, sourceType |-> "", sourceId |-> "",
          sourceDate |-> Undefined, createdAt |-> Undefined,
          classification |-> "", isCompleted |-> FALSE, urgencyScore |-> 0]

\* db.insert(workItems).values(v).returning(): id from the serial,
\* created_at from defaultNow().
InsertRow(v, id, createdAt) ==
    [id |-> id, userId |-> v.userId, sourceType |-> v.sourceType, sourceId |-> v.sourceId,
     sourceDate |-> v.sourceDate, createdAt |-> createdAt,
     classification |-> v.classification, isCompleted |-> v.isCompleted,
     urgencyScore |-> v.urgencyScore]

\* .set({...updateData}): the columns named by updateData are overwritten.
SetRow(row, updateData) ==
    [f \in DOMAIN row |-> IF f \in DOMAIN updateData THEN updateData[f] ELSE row[f]]

RowsById(id) == {row \in workItems : row.id = id}

\* The rows that share the dedup key (userId, sourceType, sourceId).
RowsBySourceId(userId, sourceType, sourceId) ==
    {row \in workItems : /\ row.userId = userId
                         /\ row.sourceType = sourceType
                         /\ row.sourceId = sourceId}

\* history: a mutation of the items of the users in changed has returned.
Completed(changed, ver) ==
    [u \in Users |-> IF u \in changed THEN [ver |-> ver, at |-> now] ELSE mutated[u]]

\* --- services/websocket.ts: WorkOSWebSocketService ---

ClientIds == {"k1", "k2"}

\* A slot of the Map clients.  connected: the id is a key of the Map; open:
\* readyState is OPEN; user (history): the user whose browser opened the
\* socket, which the service does not record; received (history): the
\* messages sent to the socket.
NoClient == [connected |-> FALSE, open |-> FALSE, user |-> 0, received |-> {}]

NoClients == [k \in ClientIds |-> NoClient]

\* A message as broadcast: its type, and (history) the user whose items the
\* change was made to.
WebSocketMessage(type, userId) == [type |-> type, user |-> userId]

\* broadcast(message): client.send to every client of the Map that is OPEN;
\* the others are cleaned up.
broadcast(cs, message) ==
    [k \in ClientIds |->
        IF ~cs[k].connected THEN cs[k]
        ELSE IF cs[k].open THEN [cs[k] EXCEPT !.received = @ \cup {message}]
        ELSE NoClient]

\* The messages of a sequence, broadcast in order.
RECURSIVE broadcastAll(_, _)
broadcastAll(cs, messages) ==
    IF messages = << >> THEN cs
    ELSE broadcastAll(broadcast(cs, Head(messages)), Tail(messages))

\* wss.on('connection'): the socket is stored under a fresh id and greeted
\* with a sync_complete message (sendToClient).
wsConnection(k, userId) ==
    /\ ~clients[k].connected
    /\ clients' = [clients EXCEPT ![k] =
          [connected |-> TRUE, open |-> TRUE, user |-> userId,
           received |-> {WebSocketMessage("sync_complete", 0)}]]
    /\ UNCHANGED <<now, tz, workItems, nextId, workItemsCache, readers, writers, runs,
                   upstream, oauth, version, mutated, ticks, faults>>

\* The socket leaves OPEN (the peer went away); its close event has not
\* been handled yet.
wsClosing(k) ==
    /\ clients[k].connected /\ clients[k].open
    /\ clients' = [clients EXCEPT ![k].open = FALSE]
    /\ UNCHANGED <<now, tz, workItems, nextId, workItemsCache, readers, writers, runs,
                   upstream, oauth, version, mutated, ticks, faults>>

\* ws.on('close') / ws.on('error'): cleanupClient.
wsClose(k) ==
    /\ clients[k].connected /\ ~clients[k].open
    /\ clients' = [clients EXCEPT ![k] = NoClient]
    /\ UNCHANGED <<now, tz, workItems, nextId, workItemsCache, readers, writers, runs,
                   upstream, oauth, version, mutated, ticks, faults>>

Writers == {"w1"}

\* A writer between calls.  changed (history) is the set of users whose rows
\* the call changed, ver (history) the table version its statement produced.
IdleWriter ==
    [pc |-> "idle", op |-> "", id |-> 0, values |-> NoRow, item |-> NoRow,
     found |-> FALSE, deleted |-> FALSE, ok |-> FALSE, changed |-> {}, ver |-> 0]

\* POST /api/work-items -> storage.createWorkItem: the insert statement.
createWorkItemInsert(w, values) ==
    /\ writers[w].pc = "idle"
    /\ Cardinality(workItems) < MaxItems
    /\ version < MaxWrites
    /\ LET item == InsertRow(values, nextId, now)
       IN  /\ workItems' = workItems \cup {item}
           /\ writers' = [writers EXCEPT ![w] =
                 [IdleWriter EXCEPT !.pc = "inserted", !.op = "create",
                                    !.values = values, !.item = item,
                                    !.changed = {values.userId},
                                    !.ver = version + 1]]
    /\ nextId' = nextId + 1
    /\ version' = version + 1
    /\ UNCHANGED <<now, tz, workItemsCache, readers, runs, upstream, oauth, mutated, ticks, faults, clients>>

\* The insert statement rejects: createWorkItem rethrows, the route
\* answers 400.
createWorkItemInsertFails(w, values) ==
    /\ writers[w].pc = "idle"
    /\ faults < MaxFaults
    /\ faults' = faults + 1
    /\ writers' = [writers EXCEPT ![w] =
          [IdleWriter EXCEPT !.pc = "done", !.op = "create", !.values = values]]
    /\ UNCHANGED <<now, tz, workItems, nextId, workItemsCache, readers, runs, upstream, oauth,
                   version, mutated, ticks, clients>>

\* createWorkItem after the await: clearWorkItemsCache(insertWorkItem.userId),
\* return the row.
createWorkItemEnd(w) ==
    /\ writers[w].pc = "inserted"
    /\ workItemsCache' = clearWorkItemsCache(workItemsCache, writers[w].values.userId)
    /\ writers' = [writers EXCEPT ![w].pc = "done", ![w].ok = TRUE]
    /\ mutated' = Completed(writers[w].changed, writers[w].ver)
    /\ UNCHANGED <<now, tz, workItems, nextId, readers, runs, upstream, oauth, version, ticks, faults, clients>>

\* PUT /api/work-items/:id -> storage.updateWorkItem: the update statement
\* with .returning(); no row comes back when the id is unknown.
updateWorkItemUpdate(w, id, updateData) ==
    /\ writers[w].pc = "idle"
    /\ \/ /\ RowsById(id) # {}
          /\ version < MaxWrites
          /\ LET old == CHOOSE row \in RowsById(id) : TRUE
                 item == SetRow(old, updateData)
             IN  /\ workItems' = (workItems \ {old}) \cup {item}
                 /\ writers' = [writers EXCEPT ![w] =
                       [IdleWriter EXCEPT !.pc = "updated", !.op = "update", !.id = id,
                                          !.item = item, !.found = TRUE,
                                          !.changed = {old.userId, item.userId},
                                          !.ver = version + 1]]
          /\ version' = version + 1
       \/ /\ RowsById(id) = {}
          /\ writers' = [writers EXCEPT ![w] =
                [IdleWriter EXCEPT !.pc = "updated", !.op = "update", !.id = id]]
          /\ UNCHANGED <<workItems, version>>
    /\ UNCHANGED <<now, tz, nextId, workItemsCache, readers, runs, upstream, oauth, mutated, ticks, faults, clients>>

\* updateWorkItem after the await: if (item) clearWorkItemsCache(item.userId).
updateWorkItemEnd(w) ==
    /\ writers[w].pc = "updated"
    /\ IF writers[w].found
       THEN /\ workItemsCache' = clearWorkItemsCache(workItemsCache, writers[w].item.userId)
            /\ mutated' = Completed(writers[w].changed, writers[w].ver)
       ELSE UNCHANGED <<workItemsCache, mutated>>
    /\ writers' = [writers EXCEPT ![w].pc = "done", ![w].ok = writers[w].found]
    /\ UNCHANGED <<now, tz, workItems, nextId, readers, runs, upstream, oauth, version, ticks, faults, clients>>

\* DELETE /api/work-items/:id -> storage.deleteWorkItem: the select that
\* looks the row up for its userId.
deleteWorkItemSelect(w, id) ==
    /\ writers[w].pc = "idle"
    /\ writers' = [writers EXCEPT ![w] =
          [IdleWriter EXCEPT !.pc = "selected", !.op = "delete", !.id = id,
                             !.found = RowsById(id) # {},
                             !.item = IF RowsById(id) # {}
                                      THEN CHOOSE row \in RowsById(id) : TRUE
                                      ELSE NoRow]]
    /\ UNCHANGED <<now, tz, workItems, nextId, workItemsCache, readers, runs, upstream, oauth,
                   version, mutated, ticks, faults, clients>>

\* deleteWorkItem: the delete statement; deleted = rowCount > 0.
deleteWorkItemDelete(w) ==
    /\ writers[w].pc = "selected"
    /\ RowsById(writers[w].id) # {} => version < MaxWrites
    /\ workItems' = workItems \ RowsById(writers[w].id)
    /\ version' = IF RowsById(writers[w].id) # {} THEN version + 1 ELSE version
    /\ writers' = [writers EXCEPT
          ![w].pc = "deleted",
          ![w].deleted = RowsById(writers[w].id) # {},
          ![w].changed = {row.userId : row \in RowsById(writers[w].id)},
          ![w].ver = IF RowsById(writers[w].id) # {} THEN version + 1 ELSE 0]
    /\ UNCHANGED <<now, tz, nextId, workItemsCache, readers, runs, upstream, oauth, mutated, ticks, faults, clients>>

\* deleteWorkItem after the awaits: if (deleted && item)
\* clearWorkItemsCache(item.userId); return deleted.
deleteWorkItemEnd(w) ==
    /\ writers[w].pc = "deleted"
    /\ IF writers[w].deleted /\ writers[w].found
       THEN workItemsCache' = clearWorkItemsCache(workItemsCache, writers[w].item.userId)
       ELSE UNCHANGED workItemsCache
    /\ IF writers[w].deleted
       THEN mutated' = Completed(writers[w].changed, writers[w].ver)
       ELSE UNCHANGED mutated
    /\ writers' = [writers EXCEPT ![w].pc = "done", ![w].ok = writers[w].deleted]
    /\ UNCHANGED <<now, tz, workItems, nextId, readers, runs, upstream, oauth, version, ticks, faults, clients>>

\* The message the route broadcasts once the storage call has returned:
\* work_item_created, work_item_updated or work_item_deleted.
RouteMessage(writer) ==
    WebSocketMessage(CASE writer.op = "create" -> "work_item_created"
                       [] writer.op = "update" -> "work_item_updated"
                       [] OTHER -> "work_item_deleted",
                     writer.item.userId)

\* The route after the storage call: a failed call is answered 400 / 404 /
\* 500; otherwise the change is broadcast and the response sent.  The
\* writer is free for the next request.
WriterReturn(w) ==
    /\ writers[w].pc = "done"
    /\ writers' = [writers EXCEPT ![w] = IdleWriter]
    /\ clients' = IF writers[w].ok THEN broadcast(clients, RouteMessage(writers[w]))
                  ELSE clients
    /\ UNCHANGED <<now, tz, workItems, nextId, workItemsCache, readers, runs, upstream, oauth,
                   version, mutated, ticks, faults>>

\* Time passes.
Tick(d) ==
    /\ ticks < MaxTicks
    /\ ticks' = ticks + 1
    /\ now' = now + d
    /\ UNCHANGED <<tz, workItems, nextId, workItemsCache, readers, writers, runs, upstream, oauth,
                   version, mutated, faults, clients>>

----------------------------------------------------------------------------
(* processGmailEmails and processSlackMessages *)

Runs == {"p1", "p2"}

BATCH_SIZE == 3

\* A raw message as the fetcher hands it over.  internalDate is the Gmail
\* field by its format: "none" (field missing), "ms" (epoch milliseconds in
\* digits), "text" (a date string that does not start with a digit), "junk"
\* (neither a number nor a date).  A Slack message has its ts as id.
Message(id, fmt, v, body, subject, text) ==
    [id |-> id, internalDate |-> [fmt |-> fmt, v |-> v],
     body |-> body, subject |-> subject, text |-> text]

\* parseInt of a Slack ts "seconds.micros": the seconds; NaN (InvalidDate)
\* for a string that does not start with a digit.
ParseSlackTs(id) ==
    CASE id = "864000.000100" -> 864000
      [] id = "867600.000200" -> 867600
      [] id = "777600.000300" -> 777600
      [] id = "871200.000400" -> 871200
      [] OTHER -> InvalidDate

\* The Date that lines 423-430 / 1306-1313 of routes.ts build from
\* internalDate: new Date(parseInt(s)) when parseInt is a number, new Date(s)
\* otherwise.
ParseEmailDate(internalDate) ==
    CASE internalDate.fmt = "ms" -> internalDate.v
      [] internalDate.fmt = "text" -> internalDate.v
      [] OTHER -> InvalidDate

\* Date.UTC(getUTCFullYear(), getUTCMonth(), getUTCDate()): the UTC day.
UtcStartOfDay(date) == (date \div DAY) * DAY

\* Variant: the UTC day of the email is not compared with the target's.
validateEmailDate_AnyDay(email, targetDate) ==
    /\ email.internalDate.fmt # "none"
    /\ isValidDate(ParseEmailDate(email.internalDate))

validateEmailDate(email, targetDate) ==
    /\ email.internalDate.fmt # "none"
    /\ isValidDate(ParseEmailDate(email.internalDate))
    /\ (targetDate # Undefined /\ isValidDate(targetDate))
         => UtcStartOfDay(ParseEmailDate(email.internalDate)) = UtcStartOfDay(targetDate)

\* validateEmailContent accepts every email object (it only fills the body).
validateEmailContent(email) == TRUE

\* The body after validateEmailContent.
EmailBody(email) ==
    IF email.body = "" \/ email.body = "Message content unavailable"
    THEN IF email.subject # "" THEN email.subject ELSE "No content available"
    ELSE email.body

\* The filter of processSlackMessages, lines 1449-1498; blank is the text
\* that trim() empties.
ValidSlackMessage(message, targetDate) ==
    /\ message.id # ""
    /\ message.text # ""
    /\ (targetDate # Undefined /\ isValidDate(targetDate))
         => /\ ParseSlackTs(message.id) # InvalidDate
            /\ UtcStartOfDay(ParseSlackTs(message.id) * 1000) = UtcStartOfDay(targetDate)
    /\ message.text # " "

ValidMessage(source, message, targetDate) ==
    IF source = "gmail"
    THEN validateEmailDate(message, targetDate) /\ validateEmailContent(message)
    ELSE ValidSlackMessage(message, targetDate)

\* Array.prototype.filter.
RECURSIVE Filter(_, _, _)
Filter(source, messages, targetDate) ==
    IF messages = << >> THEN << >>
    ELSE (IF ValidMessage(source, Head(messages), targetDate)
          THEN << Head(messages) >> ELSE << >>)
         \o Filter(source, Tail(messages), targetDate)

\* Gmail runs its messages in batches of BATCH_SIZE under Promise.all; the
\* for-loop of processSlackMessages awaits one message at a time.
BatchSize(source) == IF source = "gmail" THEN BATCH_SIZE ELSE 1

\* A per-message task before it begins.  lookupFailed (history): the dedup
\* lookup of the message was rejected by the database.
NoTask == [pc |-> "wait", status |-> "", sourceDate |-> Undefined,
           content |-> "", analysis |-> "", item |-> 0, lookupFailed |-> FALSE]

\* A run.  valid is validEmails / validMessages, from the index of the first
\* message of the batch in progress, tasks the per-message async functions.
\* lookupFailed, fetchFailed and rowsBefore are history: a dedup lookup of
\* the run was rejected by the database; its fetch threw; the number of rows
\* when the run began.
IdleRun ==
    [pc |-> "idle", source |-> "", userId |-> 0, accessToken |-> "",
     targetDate |-> Undefined,
     fetched |-> 0, valid |-> << >>, from |-> 0, tasks |-> << >>,
     created |-> 0, skipped |-> 0, errors |-> 0,
     lookupFailed |-> FALSE, fetchFailed |-> FALSE, rowsBefore |-> 0]

InBatch(run, i) ==
    run.from <= i /\ i < run.from + BatchSize(run.source) /\ i <= Len(run.valid)

Return(run, created, skipped, errors) ==
    [run EXCEPT !.pc = "done", !.created = created, !.skipped = skipped, !.errors = errors]

\* Variant: every task of the run begins at once.
StartBatch_AllAtOnce(run, from) ==
    [run EXCEPT !.from = from,
                !.tasks = [i \in 1..Len(run.valid) |->
                             IF run.tasks[i].pc = "wait"
                             THEN [run.tasks[i] EXCEPT !.pc = "lookup"]
                             ELSE run.tasks[i]]]

\* The tasks of the batch that starts at from begin: each runs up to its
\* first await, the dedup lookup.
StartBatch(run, from) ==
    [run EXCEPT !.from = from,
                !.tasks = [i \in 1..Len(run.valid) |->
                             IF from <= i /\ i < from + BatchSize(run.source)
                             THEN [run.tasks[i] EXCEPT !.pc = "lookup"]
                             ELSE run.tasks[i]]]

\* processGmailEmails / processSlackMessages up to the await of the fetch.
\* The first statement, outside the try, logs targetDate?.toISOString(),
\* which throws a RangeError on an invalid Date: the call rejects (pc
\* "raised") before the checks of the inputs; the later check of the target
\* date is never reached with an invalid one.
processStart(n, source, userId, accessToken, targetDate) ==
    LET run == [IdleRun EXCEPT !.source = source, !.userId = userId,
                               !.accessToken = accessToken,
                               !.targetDate = targetDate,
                               !.rowsBefore = Cardinality(workItems)]
    IN  /\ runs[n].pc = "idle"
        /\ runs' = [runs EXCEPT ![n] =
              IF targetDate # Undefined /\ ~isValidDate(targetDate)
              THEN [run EXCEPT !.pc = "raised"]
              ELSE IF userId = 0 \/ accessToken = ""
              THEN Return(run, 0, 0, 0)
              ELSE [run EXCEPT !.pc = "fetch"]]
        /\ UNCHANGED <<now, tz, workItems, nextId, workItemsCache, readers, writers,
                       upstream, oauth, version, mutated, ticks, faults, clients>>

\* The fetch returns: filter the valid messages, cut them into batches and
\* start the first batch.
processFetched(n) ==
    LET run == runs[n]
        messages == upstream[run.source]
        valid == Filter(run.source, messages, run.targetDate)
    IN  /\ run.pc = "fetch"
        /\ runs' = [runs EXCEPT ![n] =
              IF Len(messages) = 0 \/ Len(valid) = 0
              THEN Return([run EXCEPT !.fetched = Len(messages)], 0, 0, 0)
              ELSE StartBatch([run EXCEPT !.pc = "batch", !.fetched = Len(messages),
                                          !.valid = valid,
                                          !.tasks = [i \in 1..Len(valid) |-> NoTask]], 1)]
        /\ UNCHANGED <<now, tz, workItems, nextId, workItemsCache, readers, writers,
                       upstream, oauth, version, mutated, ticks, faults, clients>>

\* Variant: no outer catch, the error of the fetch leaves the call.
processFetchFails_Rethrows(n) ==
    /\ runs[n].pc = "fetch"
    /\ runs[n].source = "slack"
    /\ faults < MaxFaults
    /\ faults' = faults + 1
    /\ runs' = [runs EXCEPT ![n] = [runs[n] EXCEPT !.pc = "raised", !.fetchFailed = TRUE]]
    /\ UNCHANGED <<now, tz, workItems, nextId, workItemsCache, readers, writers,
                   upstream, oauth, version, mutated, ticks, clients>>

\* The awaits before the filter throw: getUser finds no user or rejects, or
\* fetchSlackMessages rethrows (token expired, channel list refused); the
\* outer catch returns one error.  fetchGmailEmails catches every error and
\* returns [], so a Gmail run has no such step.
processFetchFails(n) ==
    /\ runs[n].pc = "fetch"
    /\ runs[n].source = "slack"
    /\ faults < MaxFaults
    /\ faults' = faults + 1
    /\ runs' = [runs EXCEPT ![n] = Return([runs[n] EXCEPT !.fetchFailed = TRUE], 0, 0, 1)]
    /\ UNCHANGED <<now, tz, workItems, nextId, workItemsCache, readers, writers,
                   upstream, oauth, version, mutated, ticks, clients>>

SetTask(n, i, task) == [runs EXCEPT ![n].tasks[i] = task]

\* Variant: the classifier is called before the outcome of the lookup is
\* looked at.
TaskLookup_ClassifiesFirst(n, i) ==
    LET run == runs[n]
        existingItem == RowsBySourceId(run.userId, run.source, run.valid[i].id)
    IN  /\ run.pc = "batch" /\ i \in 1..Len(run.valid)
        /\ run.tasks[i].pc = "lookup"
        /\ runs' = SetTask(n, i,
              IF existingItem # {}
              THEN [run.tasks[i] EXCEPT !.pc = "done", !.status = "skipped",
                                        !.analysis = "urgent"]
              ELSE [run.tasks[i] EXCEPT !.pc = "analyze"])
        /\ UNCHANGED <<now, tz, workItems, nextId, workItemsCache, readers, writers,
                       upstream, oauth, version, mutated, ticks, faults, clients>>

\* Variant: the lookup never finds a row.
TaskLookup_NeverFinds(n, i) ==
    LET run == runs[n]
    IN  /\ run.pc = "batch" /\ i \in 1..Len(run.valid)
        /\ run.tasks[i].pc = "lookup"
        /\ runs' = SetTask(n, i, [run.tasks[i] EXCEPT !.pc = "analyze"])
        /\ UNCHANGED <<now, tz, workItems, nextId, workItemsCache, readers, writers,
                       upstream, oauth, version, mutated, ticks, faults, clients>>

\* await storage.getWorkItemBySourceId: the select; a row found ends the
\* task as skipped, otherwise the classifier is called.
TaskLookup(n, i) ==
    LET run == runs[n]
        existingItem == RowsBySourceId(run.userId, run.source, run.valid[i].id)
    IN  /\ run.pc = "batch" /\ i \in 1..Len(run.valid)
        /\ run.tasks[i].pc = "lookup"
        /\ runs' = SetTask(n, i,
              IF existingItem # {}
              THEN [run.tasks[i] EXCEPT !.pc = "done", !.status = "skipped"]
              ELSE [run.tasks[i] EXCEPT !.pc = "analyze"])
        /\ UNCHANGED <<now, tz, workItems, nextId, workItemsCache, readers, writers,
                       upstream, oauth, version, mutated, ticks, faults, clients>>

\* The select is rejected: getWorkItemBySourceId catches and returns
\* undefined, and the task goes on as if no row existed.
TaskLookupFails(n, i) ==
    LET run == runs[n]
    IN  /\ run.pc = "batch" /\ i \in 1..Len(run.valid)
        /\ run.tasks[i].pc = "lookup"
        /\ faults < MaxFaults
        /\ faults' = faults + 1
        /\ runs' = [SetTask(n, i, [run.tasks[i] EXCEPT !.pc = "analyze",
                                                        !.lookupFailed = TRUE])
                      EXCEPT ![n].lookupFailed = TRUE]
        /\ UNCHANGED <<now, tz, workItems, nextId, workItemsCache, readers, writers,
                       upstream, oauth, version, mutated, ticks, clients>>

\* The Date stored as sourceDate: Gmail parses internalDate again and gives
\* the message up when it is invalid; Slack takes ts * 1000 and falls back
\* to new Date() when ts is not a number.
TaskSourceDate(source, message) ==
    IF source = "gmail" THEN ParseEmailDate(message.internalDate)
    ELSE IF ParseSlackTs(message.id) = InvalidDate THEN now
    ELSE ParseSlackTs(message.id) * 1000

\* sanitizeContent: tags removed, runs of whitespace collapsed, trimmed.
sanitizeContent(content) ==
    IF content \in {"", " ", "<br>"} THEN "" ELSE content

\* The content handed to analyzeWorkItem: email.body as validateEmailContent
\* left it, message.text for Slack.
TaskContent(source, message) ==
    IF source = "gmail" THEN EmailBody(message) ELSE message.text

\* await analyzeWorkItem returns analysis.  It never rejects: when the
\* content is empty after sanitizing, or the model call or the parsing of
\* its answer fails, its catch returns the default analysis ("default").
\* Then the date is parsed and createWorkItem called.
TaskAnalyze(n, i, analysis) ==
    LET run == runs[n]
        sourceDate == TaskSourceDate(run.source, run.valid[i])
        content == TaskContent(run.source, run.valid[i])
    IN  /\ run.pc = "batch" /\ i \in 1..Len(run.valid)
        /\ run.tasks[i].pc = "analyze"
        /\ sanitizeContent(content) = "" => analysis = "default"
        /\ runs' = SetTask(n, i,
              IF ~isValidDate(sourceDate)
              THEN [run.tasks[i] EXCEPT !.pc = "done", !.status = "error",
                                        !.content = content, !.analysis = analysis]
              ELSE [run.tasks[i] EXCEPT !.pc = "insert", !.sourceDate = sourceDate,
                                        !.content = content, !.analysis = analysis])
        /\ UNCHANGED <<now, tz, workItems, nextId, workItemsCache, readers, writers,
                       upstream, oauth, version, mutated, ticks, faults, clients>>

\* The classification that analysis carries.
Classification(analysis) == IF analysis = "default" THEN "fyi" ELSE analysis

\* The urgency_score that analysis carries.
UrgencyScore(analysis) == IF analysis = "urgent" THEN 5 ELSE 1

\* Variant: the table refuses a second row with the same triple (the insert
\* does nothing and the task goes on).
TaskInsert_UniqueTriple(n, i) ==
    LET run == runs[n]
        values == [NoRow EXCEPT !.userId = run.userId, !.sourceType = run.source,
                                !.sourceId = run.valid[i].id,
                                !.sourceDate = run.tasks[i].sourceDate,
                                !.classification = Classification(run.tasks[i].analysis),
                                !.urgencyScore = UrgencyScore(run.tasks[i].analysis)]
        present == RowsBySourceId(run.userId, run.source, run.valid[i].id) # {}
    IN  /\ run.pc = "batch" /\ i \in 1..Len(run.valid)
        /\ run.tasks[i].pc = "insert"
        /\ workItems' = IF present THEN workItems
                        ELSE workItems \cup {InsertRow(values, nextId, now)}
        /\ nextId' = nextId + 1
        /\ version' = version + 1
        /\ runs' = SetTask(n, i, [run.tasks[i] EXCEPT !.pc = "inserted", !.item = nextId])
        /\ UNCHANGED <<now, tz, workItemsCache, readers, writers, upstream, oauth,
                       mutated, ticks, faults, clients>>

\* storage.createWorkItem: the insert statement of the task.
TaskInsert(n, i) ==
    LET run == runs[n]
        values == [NoRow EXCEPT !.userId = run.userId, !.sourceType = run.source,
                                !.sourceId = run.valid[i].id,
                                !.sourceDate = run.tasks[i].sourceDate,
                                !.classification = Classification(run.tasks[i].analysis),
                                !.urgencyScore = UrgencyScore(run.tasks[i].analysis)]
    IN  /\ run.pc = "batch" /\ i \in 1..Len(run.valid)
        /\ run.tasks[i].pc = "insert"
        /\ workItems' = workItems \cup {InsertRow(values, nextId, now)}
        /\ nextId' = nextId + 1
        /\ version' = version + 1
        /\ runs' = SetTask(n, i, [run.tasks[i] EXCEPT !.pc = "inserted", !.item = nextId])
        /\ UNCHANGED <<now, tz, workItemsCache, readers, writers, upstream, oauth,
                       mutated, ticks, faults, clients>>

\* The insert is rejected: createWorkItem rethrows, the task ends as error.
TaskInsertFails(n, i) ==
    LET run == runs[n]
    IN  /\ run.pc = "batch" /\ i \in 1..Len(run.valid)
        /\ run.tasks[i].pc = "insert"
        /\ faults < MaxFaults
        /\ faults' = faults + 1
        /\ runs' = SetTask(n, i, [run.tasks[i] EXCEPT !.pc = "done", !.status = "error"])
        /\ UNCHANGED <<now, tz, workItems, nextId, workItemsCache, readers, writers,
                       upstream, oauth, version, mutated, ticks, clients>>

\* The messages a task broadcasts for its new item: Gmail sends
\* work_item_created and sync_progress, Slack work_item_created.
TaskMessages(run) ==
    IF run.source = "gmail"
    THEN << WebSocketMessage("work_item_created", run.userId),
            WebSocketMessage("sync_progress", run.userId) >>
    ELSE << WebSocketMessage("work_item_created", run.userId) >>

\* createWorkItem after the await clears the user's cache; the task
\* broadcasts and ends as created.
TaskCreated(n, i) ==
    LET run == runs[n]
    IN  /\ run.pc = "batch" /\ i \in 1..Len(run.valid)
        /\ run.tasks[i].pc = "inserted"
        /\ workItemsCache' = clearWorkItemsCache(workItemsCache, run.userId)
        /\ mutated' = Completed({run.userId}, version)
        /\ clients' = broadcastAll(clients, TaskMessages(run))
        /\ runs' = SetTask(n, i, [run.tasks[i] EXCEPT !.pc = "done", !.status = "created"])
        /\ UNCHANGED <<now, tz, workItems, nextId, readers, writers, upstream, oauth,
                       version, ticks, faults>>

\* Variant: the outcomes of the whole run, not of the batch, are counted at
\* the end of every batch.
CountStatus_WholeRun(run, status) ==
    Cardinality({i \in 1..Len(run.valid) : run.tasks[i].status = status})

\* batchResults.filter(r => r.status === status).length
CountStatus(run, status) ==
    Cardinality({i \in 1..Len(run.valid) : InBatch(run, i) /\ run.tasks[i].status = status})

\* Promise.all of the batch resolves (or the loop body ends): the outcomes
\* are added to the totals; the next batch starts or the run returns.
BatchEnd(n) ==
    LET run == runs[n]
        counted == [run EXCEPT !.created = @ + CountStatus(run, "created"),
                               !.skipped = @ + CountStatus(run, "skipped"),
                               !.errors = @ + CountStatus(run, "error")]
        next == run.from + BatchSize(run.source)
    IN  /\ run.pc = "batch"
        /\ \A i \in 1..Len(run.valid) : InBatch(run, i) => run.tasks[i].pc = "done"
        /\ runs' = [runs EXCEPT ![n] =
              IF next <= Len(run.valid)
              THEN StartBatch(counted, next)
              ELSE [counted EXCEPT !.pc = "done"]]
        /\ UNCHANGED <<now, tz, workItems, nextId, workItemsCache, readers, writers,
                       upstream, oauth, version, mutated, ticks, faults, clients>>

----------------------------------------------------------------------------
(* oauth.ts: enforceRateLimit and secureFetch *)

RATE_LIMIT_DELAY == 1000
MAX_RETRIES == 3
REQUEST_TIMEOUT == 30000

Calls == {"c1", "c2"}

Max(a, b) == IF a > b THEN a ELSE b

\* A call of secureFetch.  attempt is the loop variable; wakeAt the deadline
\* of the setTimeout the call awaits; armed tells that the abort timer set at
\* entry (to fire at abortAt) has not been cleared; ok and error are the
\* outcome (a response with ok status returned, or the error thrown).
\* History: requests counts the calls of fetch(); got401 tells that a 401 was
\* answered, sentAfter401 that fetch() was called after that.
IdleCall ==
    [pc |-> "idle", service |-> "", attempt |-> 0, wakeAt |-> 0,
     armed |-> FALSE, abortAt |-> 0, ok |-> FALSE, error |-> "",
     requests |-> 0, got401 |-> FALSE, sentAfter401 |-> FALSE]

\* The delay enforceRateLimit passes to setTimeout (0: resolve at once).
enforceRateLimit(dateNow, lastRequest) ==
    IF dateNow - lastRequest < RATE_LIMIT_DELAY
    THEN RATE_LIMIT_DELAY - (dateNow - lastRequest)
    ELSE 0

\* History of fetch(): the start of the latest request to the service and
\* the smallest distance seen between two requests to it.
NoteRequest(sent, service, at) ==
    [sent EXCEPT ![service] =
        [last |-> at,
         gap |-> IF sent[service].last = Undefined THEN sent[service].gap
                 ELSE IF sent[service].gap = Undefined THEN at - sent[service].last
                 ELSE Min(sent[service].gap, at - sent[service].last)]]

\* The call frame once fetch() has been called for the given attempt.
Fetching(call, attempt) ==
    [call EXCEPT !.pc = "fetch", !.attempt = attempt,
                 !.requests = @ + 1, !.sentAfter401 = @ \/ call.got401]

\* The call frame once the error has left secureFetch.
Thrown(call, error) == [call EXCEPT !.pc = "raised", !.error = error, !.armed = FALSE]

\* A timer of the call that is due first among the pending timers.
DueFirst(c) ==
    /\ oauth.calls[c].pc \in {"limit", "sleep"}
    /\ \A other \in Calls :
          oauth.calls[other].pc \in {"limit", "sleep"}
          => oauth.calls[c].wakeAt <= oauth.calls[other].wakeAt

\* secureFetch from its entry to its first suspension, as the state of the
\* module after it: the abort timer is set, the delay computed from the last
\* request of the service and the time of this call stored as the last
\* request.  With a delay the call waits for the timer of enforceRateLimit;
\* without one the promise is already resolved and fetch() is called for
\* attempt 1 before any timer can run.
Begun(o, c, service, at) ==
    LET delay == enforceRateLimit(at, o.lastRequest[service])
        frame == [IdleCall EXCEPT !.pc = "limit", !.service = service,
                                  !.armed = TRUE,
                                  !.abortAt = at + REQUEST_TIMEOUT,
                                  !.wakeAt = at + delay]
    IN  [o EXCEPT
            !.started = @ + 1,
            !.lastRequest[service] = at,
            !.calls[c] = IF delay = 0 THEN Fetching(frame, 1) ELSE frame,
            !.sent = IF delay = 0 THEN NoteRequest(@, service, at) ELSE @]

secureFetchBegin(c, service) ==
    /\ oauth.calls[c].pc = "idle"
    /\ oauth.started < MaxCalls
    /\ oauth' = Begun(oauth, c, service, now)
    /\ UNCHANGED <<now, tz, workItems, nextId, workItemsCache, readers, writers, runs,
                   upstream, version, mutated, ticks, faults, clients>>

\* enforceRateLimit resolves (its timer fires, not before wakeAt): the loop
\* begins and fetch() is called for attempt 1.
secureFetchLimited(c) ==
    /\ oauth.calls[c].pc = "limit"
    /\ DueFirst(c)
    /\ now' = Max(now, oauth.calls[c].wakeAt)
    /\ oauth' = [oauth EXCEPT
          !.calls[c] = Fetching(oauth.calls[c], 1),
          !.sent = NoteRequest(oauth.sent, oauth.calls[c].service, now')]
    /\ UNCHANGED <<tz, workItems, nextId, workItemsCache, readers, writers, runs,
                   upstream, version, mutated, ticks, faults, clients>>

\* Variant: the catch swallows the error on every attempt.
Caught_AlwaysRetries(call, error) == Fetching(call, call.attempt + 1)

\* The frame after the inner catch has taken an error thrown in attempt
\* call.attempt that is not an AbortError: rethrown on the last attempt,
\* otherwise swallowed, and the loop calls fetch() again at once.
Caught(call, error) ==
    IF call.attempt = MAX_RETRIES
    THEN Thrown(call, error)
    ELSE Fetching(call, call.attempt + 1)

\* The frame after the response of attempt call.attempt.  status 0 stands
\* for a rejected fetch() (network failure); retryAfter is the Retry-After
\* header in seconds, Undefined when absent.
Responded(call, status, retryAfter) ==
    CASE status = 0 -> Caught(call, "network")
      [] status = 200 -> [call EXCEPT !.pc = "done", !.ok = TRUE, !.armed = FALSE]
      [] status = 401 -> Caught([call EXCEPT !.got401 = TRUE, !.armed = FALSE], "auth")
      [] status = 429 ->
            [call EXCEPT !.pc = "sleep", !.armed = FALSE,
                         !.wakeAt = now + (IF retryAfter # Undefined
                                           THEN retryAfter * 1000
                                           ELSE RATE_LIMIT_DELAY * call.attempt)]
      [] status >= 500 /\ call.attempt < MAX_RETRIES ->
            [call EXCEPT !.pc = "sleep", !.armed = FALSE,
                         !.wakeAt = now + RATE_LIMIT_DELAY * call.attempt]
      [] OTHER -> Caught([call EXCEPT !.armed = FALSE], "api")

\* await fetch() settles in the current attempt.
secureFetchResponse(c, status, retryAfter) ==
    LET after == Responded(oauth.calls[c], status, retryAfter)
    IN  /\ oauth.calls[c].pc = "fetch"
        /\ oauth' = [oauth EXCEPT
              !.calls[c] = after,
              !.sent = IF after.requests > oauth.calls[c].requests
                       THEN NoteRequest(oauth.sent, after.service, now)
                       ELSE oauth.sent]
        /\ UNCHANGED <<now, tz, workItems, nextId, workItemsCache, readers, writers, runs,
                       upstream, version, mutated, ticks, faults, clients>>

\* The delay after a 429 or 5xx is over (not before wakeAt): continue; the
\* next attempt calls fetch(), or the loop is over and secureFetch throws.
secureFetchWake(c) ==
    LET call == oauth.calls[c]
    IN  /\ call.pc = "sleep"
        /\ DueFirst(c)
        /\ now' = Max(now, call.wakeAt)
        /\ oauth' = [oauth EXCEPT
              !.calls[c] = IF call.attempt < MAX_RETRIES
                           THEN Fetching(call, call.attempt + 1)
                           ELSE Thrown(call, "exhausted"),
              !.sent = IF call.attempt < MAX_RETRIES
                       THEN NoteRequest(oauth.sent, call.service, now')
                       ELSE oauth.sent]
        /\ UNCHANGED <<tz, workItems, nextId, workItemsCache, readers, writers, runs,
                       upstream, version, mutated, ticks, faults, clients>>

\* No answer until the abort timer fires (it is cleared by the first
\* response): fetch() rejects with an AbortError, which the catch rethrows as
\* a timeout whatever the attempt.
secureFetchAbort(c) ==
    /\ oauth.calls[c].pc = "fetch"
    /\ oauth.calls[c].armed
    /\ now' = Max(now, oauth.calls[c].abortAt)
    /\ oauth' = [oauth EXCEPT !.calls[c] = Thrown(oauth.calls[c], "timeout")]
    /\ UNCHANGED <<tz, workItems, nextId, workItemsCache, readers, writers, runs,
                   upstream, version, mutated, ticks, faults, clients>>

\* The caller has taken the response or the error.
secureFetchReturn(c) ==
    /\ oauth.calls[c].pc \in {"done", "raised"}
    /\ oauth' = [oauth EXCEPT !.calls[c] = IdleCall]
    /\ UNCHANGED <<now, tz, workItems, nextId, workItemsCache, readers, writers, runs,
                   upstream, version, mutated, ticks, faults, clients>>

----------------------------------------------------------------------------
(* The fetchers of RealOAuthService *)

FIVE_MINUTES == 5 * 60 * 1000

\* isTokenExpired: no expiry is never expired; otherwise expired from five
\* minutes before expiresAt.
isTokenExpired(expiresAt, dateNow) ==
    /\ expiresAt # Undefined
    /\ dateNow > expiresAt - FIVE_MINUTES

\* The q parameter of the Gmail list request: after:/before: as calendar
\* days.  The year, month and day are read with getFullYear, getMonth and
\* getDate, and the next day is reached with setDate(getDate() + 1): all of
\* them in the timezone of the server.
GmailQuery(targetDate, offset) ==
    [after |-> toDateString(targetDate, offset),
     before |-> toDateString(targetDate, offset) + 1]

NoQuery == [after |-> Undefined, before |-> Undefined]

\* A fetcher that is not running.  cause records why a run found no
\* messages: "credential", "malformed", "exhausted" or "date".
IdleFetch ==
    [pc |-> "idle", source |-> "", targetDate |-> Undefined, query |-> NoQuery,
     result |-> "", cause |-> ""]

\* The fetcher has returned [] .
Empty(fetch, cause) == [fetch EXCEPT !.pc = "done", !.result = "empty", !.cause = cause]

\* The error has left the fetcher.
Raised(fetch, cause) == [fetch EXCEPT !.pc = "raised", !.cause = cause]

\* fetchGmailEmails / fetchSlackMessages from the entry to the await of the
\* list request (messages / conversations.list).
\*   gmail: the log before the try renders targetDate with toISOString,
\*          which throws on an invalid date; a missing token returns [];
\*          an expired token is only logged.
\*   slack: everything is inside the try whose catch rethrows: an expired
\*          token throws, the log throws on an invalid date; the token
\*          itself is not looked at.
fetchBegin(source, accessToken, expiresAt, targetDate) ==
    LET frame == [IdleFetch EXCEPT !.source = source, !.targetDate = targetDate]
        calling == [frame EXCEPT
                       !.pc = "call",
                       !.query = IF source = "gmail" /\ targetDate # Undefined
                                 THEN GmailQuery(targetDate, tz) ELSE NoQuery]
        early == IF source = "gmail"
                 THEN IF targetDate # Undefined /\ ~isValidDate(targetDate)
                      THEN Raised(frame, "date")
                      ELSE IF accessToken = "" THEN Empty(frame, "credential")
                      ELSE calling
                 ELSE IF isTokenExpired(expiresAt, now) THEN Raised(frame, "credential")
                      ELSE IF targetDate # Undefined /\ ~isValidDate(targetDate)
                      THEN Raised(frame, "date")
                      ELSE calling
    IN  /\ oauth.fetch.pc = "idle"
        /\ oauth.calls["c1"].pc = "idle"
        /\ oauth.started < MaxCalls
        /\ oauth' = IF early.pc = "call"
                    THEN [Begun(oauth, "c1", source, now) EXCEPT !.fetch = early]
                    ELSE [oauth EXCEPT !.fetch = early]
        /\ UNCHANGED <<now, tz, workItems, nextId, workItemsCache, readers, writers, runs,
                       upstream, version, mutated, ticks, faults, clients>>

\* The fetcher after the list request has ended.  body is what the upstream
\* sent with its ok status:
\*   "unparsable" : response.json() rejects
\*   "error"      : an object without the list (Slack: { ok: false, error })
\*   "nolist"     : Slack { ok: true } without channels
\*   "list"       : the list of messages / channels
\* The requests that follow (one per message, one per channel) catch their
\* own errors and only shorten the list that is returned.
Listed(fetch, call, body) ==
    IF fetch.source = "gmail"
    THEN IF call.pc = "raised"
         THEN Empty(fetch, IF call.error = "auth" THEN "credential" ELSE "exhausted")
         ELSE IF body = "list"
              THEN [fetch EXCEPT !.pc = "done", !.result = "messages"]
              ELSE Empty(fetch, "malformed")
    ELSE IF call.pc = "raised"
         THEN Raised(fetch, IF call.error = "auth" THEN "credential" ELSE "exhausted")
         ELSE CASE body = "unparsable" -> Raised(fetch, "malformed")
                [] body = "error" -> Raised(fetch, "credential")
                [] body = "nolist" -> Empty(fetch, "malformed")
                [] OTHER -> [fetch EXCEPT !.pc = "done", !.result = "messages"]

fetchListed(body) ==
    /\ oauth.fetch.pc = "call"
    /\ oauth.calls["c1"].pc \in {"done", "raised"}
    /\ oauth' = [oauth EXCEPT
          !.fetch = Listed(oauth.fetch, oauth.calls["c1"], body),
          !.calls["c1"] = IdleCall]
    /\ UNCHANGED <<now, tz, workItems, nextId, workItemsCache, readers, writers, runs,
                   upstream, version, mutated, ticks, faults, clients>>

\* The caller has taken the list or the error.
fetchReturn ==
    /\ oauth.fetch.pc \in {"done", "raised"}
    /\ oauth' = [oauth EXCEPT !.fetch = IdleFetch]
    /\ UNCHANGED <<now, tz, workItems, nextId, workItemsCache, readers, writers, runs,
                   upstream, version, mutated, ticks, faults, clients>>

\* oauth.ts as loaded: lastGmailRequest = lastSlackRequest = 0.
IdleOauth ==
    [lastRequest |-> [service \in {"gmail", "slack"} |-> 0],
     calls |-> [c \in Calls |-> IdleCall],
     sent |-> [service \in {"gmail", "slack"} |-> [last |-> Undefined, gap |-> Undefined]],
     started |-> 0,
     fetch |-> IdleFetch]

----------------------------------------------------------------------------
(* Initial states *)

Now0 == D(10, 12)

TzOffsets == {0, 330 * 60000, 0 - 8 * HOUR}

NoUpstream == [source \in {"gmail", "slack"} |-> << >>]

InitIdle ==
    /\ workItemsCache = EmptyCache
    /\ readers = [r \in Readers |-> IdleReader]
    /\ writers = [w \in Writers |-> IdleWriter]
    /\ runs = [n \in Runs |-> IdleRun]
    /\ oauth = IdleOauth
    /\ clients = NoClients
    /\ version = 0
    /\ mutated = [u \in Users |-> [ver |-> 0, at |-> Undefined]]
    /\ ticks = 0
    /\ faults = 0

----------------------------------------------------------------------------
(* SpecFilter: one read, with every shape of date range, of a stored table *)

FilterRow(id, userId, sourceDate, createdAt, classification, isCompleted) ==
    [id |-> id, userId |-> userId, sourceType |-> "gmail",
     sourceId |-> IF id = 1 THEN "m1" ELSE "m2",
     sourceDate |-> sourceDate, createdAt |-> createdAt,
     classification |-> classification, isCompleted |-> isCompleted, urgencyScore |-> 1]

FilterSourceDates == {Undefined, D(9, 10), D(10, 0), D(10, 1), D(11, 0)}
FilterCreatedAts == {D(9, 11), D(10, 2)}

FilterFirstRows ==
    { FilterRow(1, 1, sd, ca, c[1], c[2]) :
        sd \in FilterSourceDates, ca \in FilterCreatedAts,
        c \in {<<"urgent", FALSE>>, <<"fyi", TRUE>>} }

FilterSecondRows ==
    { FilterRow(2, 12, D(10, 1), D(10, 2), "urgent", FALSE),
      FilterRow(2, 1, D(11, 0), D(9, 11), "urgent", FALSE),
      FilterRow(2, 1, Undefined, D(10, 2), "urgent", FALSE) }

FilterTables ==
    { {} } \cup { {a} : a \in FilterFirstRows }
           \cup { {a, b} : a \in FilterFirstRows, b \in FilterSecondRows }

FilterStarts == {Undefined, InvalidDate, D(2, 0), D(5, 0), D(10, 0), D(11, 0)}
FilterEnds == {Undefined, InvalidDate, D(10, 0), D(11, 0)}

FilterOptions ==
    { Options(Undefined, Undefined, c, ic, sd, ed) :
        c \in {UndefStr, "urgent"}, ic \in {UndefStr, "false"},
        sd \in FilterStarts, ed \in FilterEnds }

FilterQueries ==
    { Options(Undefined, Undefined, UndefStr, ic, sd, ed) :
        ic \in {UndefStr, "true"}, sd \in FilterStarts, ed \in FilterEnds }

InitFilter ==
    /\ now = Now0
    /\ tz \in TzOffsets
    /\ workItems \in FilterTables
    /\ nextId = Cardinality(workItems) + 1
    /\ upstream = NoUpstream
    /\ InitIdle

NextFilter ==
    \/ \E o \in FilterOptions : StorageGetWorkItems("r1", 1, o)
    \/ StorageGetWorkItems("r1", 0, NoOptions)
    \/ \E q \in FilterQueries : RouteGetWorkItems("r1", 1, q)
    \/ getWorkItemsQuery("r1")
    \/ getWorkItemsEnd("r1")

SpecFilter == InitFilter /\ [][NextFilter]_vars

----------------------------------------------------------------------------
(* Claims on the date filters (SpecFilter) *)

\* The rows of the reader's user that pass its classification and
\* completion filters.
Candidates(r) ==
    { item \in workItems :
        /\ item.userId = readers[r].userId
        /\ readers[r].options.classification \in {UndefStr, ""}
             \/ item.classification = readers[r].options.classification
        /\ readers[r].options.isCompleted = UndefStr
             \/ BoolStr(item.isCompleted) = readers[r].options.isCompleted }

\* The call went to storage and came back, and pagination cut nothing off.
MissedInFull(r) ==
    /\ readers[r].pc = "done"
    /\ readers[r].kind = "miss"
    /\ readers[r].where.offset = Undefined
    /\ readers[r].where.limit = Undefined
         \/ readers[r].where.limit >= Cardinality(workItems)

Returned(r) == Range(readers[r].data)

IsToday(r) ==
    toDateString(readers[r].options.startDate, tz) = toDateString(readers[r].begunAt, tz)

IsRecent(r) ==
    /\ readers[r].options.startDate >= readers[r].begunAt - SEVEN_DAYS
    /\ readers[r].options.startDate <= readers[r].begunAt

StartOnly(r) ==
    /\ MissedInFull(r)
    /\ readers[r].options.startDate # Undefined
    /\ readers[r].options.endDate = Undefined

C9_NeverNullSourceDate ==
    \A r \in Readers :
        readers[r].pc = "done"
        => \A item \in Returned(r) : item.sourceDate # Undefined

\* A call with both bounds and start >= end.
InvertedRange(r) ==
    /\ readers[r].pc # "idle"
    /\ readers[r].options.startDate # Undefined
    /\ readers[r].options.endDate # Undefined
    /\ readers[r].options.startDate >= readers[r].options.endDate

\* C10: a read with both bounds and start >= end is answered 400 by the
\* route, and by storage.getWorkItems with an empty list, with no storage
\* query and no cache key built.
C10_InvertedRangeRejected ==
    \A r \in Readers :
        InvertedRange(r)
        => /\ readers[r].pc = "done"
           /\ readers[r].data = << >>
           /\ ~readers[r].queried
           /\ readers[r].key = NoKey
           /\ readers[r].via = "route"
                => readers[r].kind = "bad_request" /\ readers[r].status = 400
           /\ readers[r].via = "direct" => readers[r].kind = "invalid_range"

\* storage.getWorkItems was called directly with start after end.
C10_Witness ==
    \E r \in Readers :
        /\ InvertedRange(r)
        /\ readers[r].via = "direct"
        /\ readers[r].kind = "invalid_range"
        /\ readers[r].options.startDate > readers[r].options.endDate

\* C24 (as claimed): a GET /api/work-items request without isCompleted that
\* went to storage returns the user's rows that pass its other filters,
\* completed or not.
C24_AbsentCompletionIsNoFilter ==
    \A r \in Readers :
        ( /\ MissedInFull(r)
          /\ readers[r].via = "route"
          /\ readers[r].asked = UndefStr )
        => Returned(r) =
             Selected([readers[r].where EXCEPT !.isCompleted = UndefStr], workItems)

----------------------------------------------------------------------------
(* SpecCache: reads, mutations and the clock, interleaved at the awaits *)

TickSteps == {CACHE_TTL \div 2}

CacheValues(userId) ==
    [NoRow EXCEPT !.userId = userId, !.sourceType = "gmail", !.sourceId = "m1",
                  !.sourceDate = D(10, 1), !.classification = "urgent",
                  !.urgencyScore = 1]

CacheOptions == { NoOptions }

CacheUpdates == { [isCompleted |-> TRUE], [userId |-> 12] }

InitCache ==
    /\ now = Now0
    /\ tz = 0
    /\ workItems = { InsertRow(CacheValues(1), 1, D(10, 2)) }
    /\ nextId = 2
    /\ upstream = NoUpstream
    /\ InitIdle

NextCache ==
    \/ \E r \in Readers, o \in CacheOptions : StorageGetWorkItems(r, 1, o)
    \/ \E r \in Readers : getWorkItemsQuery(r)
    \/ \E r \in Readers : getWorkItemsEnd(r)
    \/ \E r \in Readers : ReaderReturn(r)
    \/ \E w \in Writers : createWorkItemInsert(w, CacheValues(1))
    \/ \E w \in Writers : createWorkItemEnd(w)
    \/ \E w \in Writers, id \in 1..MaxItems, d \in CacheUpdates : updateWorkItemUpdate(w, id, d)
    \/ \E w \in Writers : updateWorkItemEnd(w)
    \/ \E w \in Writers, id \in 1..MaxItems : deleteWorkItemSelect(w, id)
    \/ \E w \in Writers : deleteWorkItemDelete(w)
    \/ \E w \in Writers : deleteWorkItemEnd(w)
    \/ \E w \in Writers : WriterReturn(w)
    \/ \E d \in TickSteps : Tick(d)

SpecCache == InitCache /\ [][NextCache]_vars

----------------------------------------------------------------------------
(* Claims on the query cache (SpecCache) *)

UserKeys(cache, userId) ==
    { key \in DOMAIN cache : StartsWith(key, UserPrefix(userId)) }

\* C4 (as claimed): when a successful create, update or delete returns, the
\* cache holds no entry keyed for any user whose rows the call changed.
C4_CacheClearedForChangedUsers ==
    [][ \A w \in Writers :
          ( /\ writers[w].pc # "done"
            /\ writers'[w].pc = "done"
            /\ writers'[w].ok )
          => \A u \in writers'[w].changed : UserKeys(workItemsCache', u) = {} ]_vars

\* C5: a call whose key has an entry younger than CACHE_TTL returns that
\* entry's list and issues no query; with no entry, or one of age CACHE_TTL
\* or more, it goes on to query storage.
C5_EntryServedWithinTtl ==
    [][ \A r \in Readers :
          ( /\ readers[r].pc = "idle"
            /\ readers'[r].pc # "idle"
            /\ readers'[r].key # NoKey )
          => IF /\ readers'[r].key \in DOMAIN workItemsCache
                /\ now - workItemsCache[readers'[r].key].timestamp < CACHE_TTL
             THEN /\ readers'[r].pc = "done"
                  /\ readers'[r].kind = "hit"
                  /\ readers'[r].data = workItemsCache[readers'[r].key].data
                  /\ ~readers'[r].queried
                  /\ workItemsCache' = workItemsCache
             ELSE /\ readers'[r].pc = "query"
                  /\ readers'[r].data = << >> ]_vars

\* A call found an entry of age exactly CACHE_TTL under its key and went to
\* storage, after the entry had been put by an earlier miss.
C5_Witness ==
    \E r \in Readers :
        /\ readers[r].pc = "resp"
        /\ readers[r].entryTs # Undefined
        /\ readers[r].begunAt - readers[r].entryTs = CACHE_TTL
        /\ readers[r].key \in DOMAIN workItemsCache

\* Another reachable case of C5: an entry of age below CACHE_TTL was served.
C5_HitWitness ==
    \E r \in Readers :
        /\ readers[r].pc = "done"
        /\ readers[r].kind = "hit"
        /\ readers[r].begunAt - readers[r].entryTs = CACHE_TTL \div 2

\* C6 (as claimed): a read of user u that begins CACHE_TTL or more after a
\* mutation of u's items has returned is computed from the table as that
\* mutation left it, or later.
C6_StalenessBoundedByTtl ==
    \A r \in Readers :
        (readers[r].pc = "done" /\ readers[r].kind \in {"hit", "miss"})
        => readers[r].ver >= readers[r].need


----------------------------------------------------------------------------
(* SpecClear: reads of the users 1 and 12, and creates for either of them *)

ClearOptions == { NoOptions, Options(1, Undefined, UndefStr, UndefStr, Undefined, Undefined) }

InitClear ==
    /\ now = Now0
    /\ tz = 0
    /\ workItems = {}
    /\ nextId = 1
    /\ upstream = NoUpstream
    /\ InitIdle

NextClear ==
    \/ \E r \in Readers, u \in Users, o \in ClearOptions : StorageGetWorkItems(r, u, o)
    \/ \E r \in Readers : getWorkItemsQuery(r)
    \/ \E r \in Readers : getWorkItemsEnd(r)
    \/ \E r \in Readers : ReaderReturn(r)
    \/ \E w \in Writers, u \in Users : createWorkItemInsert(w, CacheValues(u))
    \/ \E w \in Writers : createWorkItemEnd(w)
    \/ \E w \in Writers : WriterReturn(w)

SpecClear == InitClear /\ [][NextClear]_vars

\* The keys that getCacheKey builds for the user.
KeysBuiltFor(cache, userId) ==
    { key \in DOMAIN cache : \E o \in ClearOptions : key = getCacheKey(userId, o) }

\* C26: the clear at the end of createWorkItem for user u deletes every
\* entry whose key getCacheKey built for u and leaves every entry built for
\* another user as it was, also when one id is a decimal prefix of the
\* other (1 and 12).
C26_ClearsExactlyOwnKeys ==
    [][ \A w \in Writers :
          ( /\ writers[w].pc = "inserted"
            /\ writers'[w].pc = "done" )
          => LET u == writers[w].values.userId
             IN  /\ KeysBuiltFor(workItemsCache', u) = {}
                 /\ \A v \in Users \ {u} :
                       /\ KeysBuiltFor(workItemsCache', v) = KeysBuiltFor(workItemsCache, v)
                       /\ \A key \in KeysBuiltFor(workItemsCache, v) :
                             workItemsCache'[key] = workItemsCache[key] ]_vars

\* A create for user 1 has just cleared the cache, which held a list for
\* user 1, and the entry of user 12 is still there.
C26_Witness ==
    \E w \in Writers :
        /\ writers[w].pc = "done"
        /\ writers[w].ok
        /\ writers[w].values.userId = 1
        /\ KeysBuiltFor(workItemsCache, 12) # {}
        /\ KeysBuiltFor(workItemsCache, 1) = {}
        /\ \E key \in KeysBuiltFor(workItemsCache, 12) : workItemsCache[key].ver < writers[w].ver

\* C28 (as claimed): whatever the interleaving of a read with a mutation of
\* the same user's items, every entry keyed for the user that the cache
\* holds once the mutation has returned is the result of a query that saw
\* the table as the mutation left it, or later.
C28_NoStaleEntryAfterMutation ==
    \A u \in Users : \A key \in UserKeys(workItemsCache, u) :
        workItemsCache[key].ver >= mutated[u].ver

----------------------------------------------------------------------------
(* SpecKey: reads with every shape of limit, offset and classification, of
   a table that does not change *)

\* The classification strings of a request: none, the literal 'all', a
\* class that items carry.
KeyClassifications == {UndefStr, "all", "urgent"}

KeyOptions ==
    { Options(l, o, c, UndefStr, Undefined, Undefined) :
        l \in {Undefined, 50}, o \in {Undefined, 0}, c \in KeyClassifications }

KeyQueries ==
    { Options(Undefined, Undefined, c, UndefStr, Undefined, Undefined) :
        c \in KeyClassifications }

InitKey ==
    /\ now = Now0
    /\ tz = 0
    /\ workItems = { InsertRow(CacheValues(1), 1, D(10, 2)),
                     InsertRow([CacheValues(1) EXCEPT !.sourceId = "m2",
                                                      !.classification = "fyi"], 2, D(10, 3)) }
    /\ nextId = 3
    /\ upstream = NoUpstream
    /\ InitIdle

NextKey ==
    \/ \E r \in Readers, o \in KeyOptions : StorageGetWorkItems(r, 1, o)
    \/ \E r \in Readers, q \in KeyQueries : RouteGetWorkItems(r, 1, q)
    \/ \E r \in Readers : getWorkItemsQuery(r)
    \/ \E r \in Readers : getWorkItemsEnd(r)
    \/ \E r \in Readers : ReaderReturn(r)
    \/ \E d \in TickSteps : Tick(d)

SpecKey == InitKey /\ [][NextKey]_vars

\* The lists that the query built from the options of call r returns on
\* the table.
OwnResults(r) ==
    { SelectSeq(rows, validateWorkItem) :
        rows \in QueryResults(WhereConditions(readers[r].userId, readers[r].options,
                                              readers[r].begunAt, tz), workItems) }

\* C29 (as claimed): the key determines the query, so a call served from
\* the cache returns what its own query would have returned on the table
\* the entry was computed from (here the table never changes), also for an
\* absent against an explicit limit 50 or offset 0 and for an absent
\* classification against the literal 'all'.
C29_HitReturnsOwnQuery ==
    \A r \in Readers :
        (readers[r].pc = "done" /\ readers[r].kind = "hit")
        => readers[r].data \in OwnResults(r)

----------------------------------------------------------------------------
(* Ingestion: the messages upstream and the three schedules *)

G1 == Message("m1", "ms", D(10, 1), "please review", "review", "")
G2 == Message("m2", "text", D(10, 3), "", "subject only", "")
G3 == Message("m3", "junk", 0, "no date", "", "")
G4 == Message("m4", "ms", D(9, 5), "yesterday", "old", "")

S1 == Message("864000.000100", "none", 0, "", "", "deploy at noon")
S2 == Message("867600.000200", "none", 0, "", "", "ack")
S3 == Message("777600.000300", "none", 0, "", "", "yesterday")
S4 == Message("x", "none", 0, "", "", " ")

Sources == {"gmail", "slack"}

TargetDates == {Undefined, D(10, 0)}

Analyses == {"urgent", "default"}

InitIngest ==
    /\ now = Now0
    /\ tz = 0
    /\ workItems = {}
    /\ nextId = 1
    /\ InitIdle

\* The steps of a run that has started.
RunSteps(n, analyses) ==
    \/ processFetched(n)
    \/ processFetchFails(n)
    \/ \E i \in 1..MaxLen : TaskLookup(n, i)
    \/ \E i \in 1..MaxLen : TaskLookupFails(n, i)
    \/ \E i \in 1..MaxLen, a \in analyses : TaskAnalyze(n, i, a)
    \/ \E i \in 1..MaxLen : TaskInsert(n, i)
    \/ \E i \in 1..MaxLen : TaskInsertFails(n, i)
    \/ \E i \in 1..MaxLen : TaskCreated(n, i)
    \/ BatchEnd(n)

\* No writing operation is in progress.
Quiescent ==
    /\ \A n \in Runs : runs[n].pc \in {"idle", "done", "raised"}
    /\ \A w \in Writers : writers[w].pc = "idle"

(* SpecSerial: runs and POST /api/work-items, one at a time *)

SerialUpstreams ==
    { [gmail |-> g, slack |-> s] : g \in { << G1 >>, << G1, G3 >> },
                                   s \in { << S1 >>, << S4, S1 >> } }

PostValues ==
    { [NoRow EXCEPT !.userId = u, !.sourceType = "gmail", !.sourceId = "m1",
                    !.sourceDate = D(10, 1), !.classification = "fyi",
                    !.urgencyScore = 1] : u \in Users }

InitSerial ==
    /\ upstream \in SerialUpstreams
    /\ InitIngest

SerialStart(n) ==
    /\ Quiescent
    /\ \E source \in Sources, targetDate \in TargetDates :
          processStart(n, source, 1, "token", targetDate)

SerialPost(w) ==
    /\ Quiescent
    /\ \E values \in PostValues : createWorkItemInsert(w, values)

NextSerial ==
    \/ \E n \in Runs : SerialStart(n)
    \/ \E n \in Runs : RunSteps(n, {"urgent"})
    \/ \E w \in Writers : SerialPost(w)
    \/ \E w \in Writers : createWorkItemEnd(w)
    \/ \E w \in Writers : WriterReturn(w)

SpecSerial == InitSerial /\ [][NextSerial]_vars

(* SpecRace: two runs for one user at the same time *)

RaceUpstreams ==
    { [gmail |-> g, slack |-> s] : g \in { << G1 >>, << G1, G2 >> },
                                   s \in { << S1 >> } }

InitRace ==
    /\ upstream \in RaceUpstreams
    /\ InitIngest

RaceStart(n) ==
    \E source \in Sources : processStart(n, source, 1, "token", Undefined)

NextRace ==
    \/ \E n \in Runs : RaceStart(n)
    \/ \E n \in Runs : RunSteps(n, {"urgent"})

SpecRace == InitRace /\ [][NextRace]_vars

(* SpecTwice: the run p1 to completion, then the same run again as p2 *)

TwiceUpstreams ==
    { [gmail |-> g, slack |-> s] : g \in { << G1, G2 >>, << G1, G3 >>, << G4, G1 >> },
                                   s \in { << S1, S2 >>, << S1, S4 >>, << S3, S1 >> } }

InitTwice ==
    /\ upstream \in TwiceUpstreams
    /\ InitIngest

TwiceFirst ==
    \E source \in Sources, userId \in {0, 1}, token \in {"", "token"},
       targetDate \in TargetDates \cup {InvalidDate} :
          processStart("p1", source, userId, token, targetDate)

\* The second call has the arguments of the first and starts after it
\* returned.
TwiceSecond ==
    /\ runs["p1"].pc \in {"done", "raised"}
    /\ processStart("p2", runs["p1"].source, runs["p1"].userId,
                    runs["p1"].accessToken, runs["p1"].targetDate)

NextTwice ==
    \/ TwiceFirst
    \/ TwiceSecond
    \/ \E n \in Runs : RunSteps(n, Analyses)

SpecTwice == InitTwice /\ [][NextTwice]_vars


----------------------------------------------------------------------------
(* Claims about deduplication *)

\* The rows other than row that carry row's (userId, sourceType, sourceId).
Twins(row) == RowsBySourceId(row.userId, row.sourceType, row.sourceId) \ {row}

\* C1: when the writing operations (the two ingestion runs and POST
\* /api/work-items) run one at a time, storage never holds two work items
\* with one (userId, sourceType, sourceId) triple.
C1_NoDuplicateTriple ==
    \A row \in workItems : Twins(row) = {}

\* The task of run n for message i ended as created after a lookup that
\* answered "not found".
CreatedAfterNotFound(n, i) ==
    /\ runs[n].pc # "idle"
    /\ i <= Len(runs[n].valid)
    /\ runs[n].tasks[i].status = "created"
    /\ ~runs[n].lookupFailed

\* C2: two concurrent runs for one user and one upstream message that both
\* pass the existence check and both create leave two work items that share
\* the message's triple; nothing between the check and the insert stops the
\* second insert.
C2_BothCreateDuplicates ==
    \A i \in 1..MaxLen :
        ( /\ runs["p1"].source = runs["p2"].source
          /\ CreatedAfterNotFound("p1", i)
          /\ CreatedAfterNotFound("p2", i) )
        => Cardinality(RowsBySourceId(1, runs["p1"].source, runs["p1"].valid[i].id)) >= 2

\* Both runs have returned, each reports a created item for the first
\* message, and storage holds two rows with that message's triple.
C2_Witness ==
    /\ runs["p1"].pc = "done" /\ runs["p2"].pc = "done"
    /\ runs["p1"].source = runs["p2"].source
    /\ CreatedAfterNotFound("p1", 1) /\ CreatedAfterNotFound("p2", 1)
    /\ runs["p1"].created >= 1 /\ runs["p2"].created >= 1
    /\ \E row \in workItems : /\ row.sourceId = runs["p1"].valid[1].id
                              /\ Twins(row) # {}

\* The second run has returned after receiving the upstream list, the first
\* run reported no error and no dedup lookup of the second was rejected.
TwiceDone ==
    /\ runs["p2"].pc = "done"
    /\ runs["p1"].errors = 0
    /\ ~runs["p2"].fetchFailed
    /\ ~runs["p2"].lookupFailed

\* The arguments let the run reach the fetch.
ArgumentsAccepted(run) ==
    /\ run.userId # 0
    /\ run.accessToken # ""
    /\ run.targetDate # InvalidDate

----------------------------------------------------------------------------
(* SpecBatch: one run over lists that fill more than one batch *)

G5 == Message("m5", "ms", D(10, 5), " ", "Reminder", "")
G6 == Message("m6", "ms", D(10, 6), "", "", "")
G7 == Message("m7", "ms", D(10, 7), "", "Reminder", "")

S5 == Message("871200.000400", "none", 0, "", "", "")
S6 == Message("pending", "none", 0, "", "", "no clock yet")

BatchUpstreams ==
    { [gmail |-> g, slack |-> s] : g \in { << G1, G5, G6, G7 >>, << G4, G1, G3 >> },
                                   s \in { << S1, S4, S2 >>, << S3, S5, S1 >>, << S6, S1 >>,
                                          << S1, S2, S1 >> } }

InitBatch ==
    /\ upstream \in BatchUpstreams
    /\ InitIngest

BatchTargetDates == TargetDates \cup {D(10, 15), InvalidDate}

BatchStart ==
    \E source \in Sources, userId \in {0, 1}, targetDate \in BatchTargetDates :
        processStart("p1", source, userId, "token", targetDate)

NextBatch ==
    \/ BatchStart
    \/ RunSteps("p1", Analyses)

SpecBatch == InitBatch /\ [][NextBatch]_vars

----------------------------------------------------------------------------
(* Claims on one ingestion run (SpecBatch) *)

\* The classifier call of task i of run n failed (analyzeWorkItem fell back
\* to its default analysis).
ClassifierFailed(n, i) ==
    /\ i <= Len(runs[n].valid)
    /\ runs[n].tasks[i].pc \in {"insert", "inserted", "done"}
    /\ runs[n].tasks[i].analysis = "default"

\* C11 (as claimed): a message whose classifier call fails is counted in
\* errors and no work item is persisted for it.
C11_FailedClassifierIsError ==
    \A n \in Runs : \A i \in 1..MaxLen :
        (runs[n].pc = "done" /\ ClassifierFailed(n, i))
        => /\ runs[n].tasks[i].status = "error"
           /\ RowsBySourceId(runs[n].userId, runs[n].source, runs[n].valid[i].id) = {}


\* The batch (0, 1, ...) of the i-th valid message of a Gmail run.
BatchOf(i) == (i - 1) \div BATCH_SIZE

\* The tasks of run n whose classifier call is in flight.
Classifying(n) ==
    { i \in 1..Len(runs[n].valid) : runs[n].tasks[i].pc = "analyze" }

\* C12: in a run of processGmailEmails at most BATCH_SIZE classifier calls
\* are in flight, and a message of a later batch has not begun (lookup,
\* classification, persist) while a message of an earlier batch has not
\* reached its outcome.
C12_BatchesSequential ==
    \A n \in Runs :
        runs[n].source = "gmail"
        => /\ Cardinality(Classifying(n)) <= BATCH_SIZE
           /\ \A i, j \in 1..Len(runs[n].valid) :
                 (BatchOf(i) < BatchOf(j) /\ runs[n].tasks[j].pc # "wait")
                 => runs[n].tasks[i].pc = "done"

\* Three classifier calls of the first batch are in flight while the fourth
\* valid email has not begun.
C12_Witness ==
    \E n \in Runs :
        /\ runs[n].source = "gmail"
        /\ Len(runs[n].valid) > BATCH_SIZE
        /\ Cardinality(Classifying(n)) = BATCH_SIZE
        /\ runs[n].tasks[BATCH_SIZE + 1].pc = "wait"


\* Run n was called as the sync routes call it: for a user with a stored
\* credential, with no target day or a valid one.
CalledBySync(n) ==
    /\ runs[n].pc # "idle"
    /\ runs[n].userId # 0
    /\ runs[n].accessToken # ""
    /\ runs[n].targetDate # InvalidDate

Outcomes(run, status) ==
    { i \in 1..Len(run.valid) : run.tasks[i].status = status }

\* C27: a run that reached its per-message processing and has returned gave
\* every valid message exactly one of the outcomes created, skipped and
\* error; each counter is the number of messages with that outcome, so the
\* three add up to the number of valid messages; and created is the number
\* of rows the run added to the table.
C27_CountsConserved ==
    \A n \in Runs :
        (runs[n].pc = "done" /\ Len(runs[n].valid) > 0)
        => /\ runs[n].valid = Filter(runs[n].source, upstream[runs[n].source],
                                     runs[n].targetDate)
           /\ \A i \in 1..Len(runs[n].valid) :
                 runs[n].tasks[i].status \in {"created", "skipped", "error"}
           /\ runs[n].created = Cardinality(Outcomes(runs[n], "created"))
           /\ runs[n].skipped = Cardinality(Outcomes(runs[n], "skipped"))
           /\ runs[n].errors = Cardinality(Outcomes(runs[n], "error"))
           /\ runs[n].created + runs[n].skipped + runs[n].errors = Len(runs[n].valid)
           /\ runs[n].created = Cardinality(workItems) - runs[n].rowsBefore

\* A run has returned with an item created, a message with the id of that
\* item skipped and a message ended as error.
C27_Witness ==
    \E n \in Runs :
        /\ runs[n].pc = "done"
        /\ runs[n].created >= 1
        /\ runs[n].skipped >= 1
        /\ runs[n].errors >= 1

\* C30 (as claimed): a message whose dedup lookup was rejected by storage
\* is not handed to the classifier, gets no work item, and ends as an
\* error of the run.
C30_FailedLookupNeverWrites ==
    \A n \in Runs : \A i \in 1..Len(runs[n].valid) :
        runs[n].tasks[i].lookupFailed
        => /\ runs[n].tasks[i].analysis = ""
           /\ runs[n].tasks[i].item = 0
           /\ runs[n].tasks[i].pc = "done" => runs[n].tasks[i].status = "error"

\* The native timestamp of a fetched message as the run parses it
\* (InvalidDate when it cannot be parsed).
NativeTimestamp(source, message) ==
    IF source = "gmail"
    THEN IF message.internalDate.fmt = "none" THEN InvalidDate
         ELSE ParseEmailDate(message.internalDate)
    ELSE IF ParseSlackTs(message.id) = InvalidDate THEN InvalidDate
         ELSE ParseSlackTs(message.id) * 1000

\* Run n was given a valid target day.
HasTargetDay(n) ==
    /\ runs[n].pc # "idle"
    /\ runs[n].targetDate # Undefined
    /\ isValidDate(runs[n].targetDate)

\* C14: every work item created by a run with a valid target day D has a
\* sourceDate on the UTC day of D, and no upstream message whose timestamp is
\* unparsable or on another UTC day is persisted by it.
C14_CreatedOnTargetDay ==
    \A n \in Runs :
        HasTargetDay(n)
        => /\ \A i \in 1..Len(runs[n].valid) :
                 runs[n].tasks[i].item # 0
                 => \A row \in RowsById(runs[n].tasks[i].item) :
                       /\ row.sourceDate # Undefined
                       /\ UtcStartOfDay(row.sourceDate) = UtcStartOfDay(runs[n].targetDate)
           /\ \A k \in 1..Len(upstream[runs[n].source]) :
                 LET message == upstream[runs[n].source][k]
                     native == NativeTimestamp(runs[n].source, message)
                 IN  (~isValidDate(native)
                        \/ UtcStartOfDay(native) # UtcStartOfDay(runs[n].targetDate))
                     => RowsBySourceId(runs[n].userId, runs[n].source, message.id) = {}

\* A run with a target day given as an afternoon hour has returned, created
\* an item, and left out an upstream message dated on the day before.
C14_Witness ==
    \E n \in Runs :
        /\ HasTargetDay(n)
        /\ runs[n].targetDate # UtcStartOfDay(runs[n].targetDate)
        /\ runs[n].pc = "done"
        /\ runs[n].created >= 1
        /\ \E k \in 1..Len(upstream[runs[n].source]) :
              LET native == NativeTimestamp(runs[n].source, upstream[runs[n].source][k])
              IN  /\ isValidDate(native)
                  /\ UtcStartOfDay(native) # UtcStartOfDay(runs[n].targetDate)


\* The body (Gmail) or text (Slack) of a fetched message.
RawContent(source, message) ==
    IF source = "gmail" THEN message.body ELSE message.text

\* The message passes every check of the validation filter that does not
\* look at its content.
AcceptedButForContent(source, message, targetDate) ==
    IF source = "gmail"
    THEN validateEmailDate(message, targetDate)
    ELSE /\ message.id # ""
         /\ (targetDate # Undefined /\ isValidDate(targetDate))
              => /\ ParseSlackTs(message.id) # InvalidDate
                 /\ UtcStartOfDay(ParseSlackTs(message.id) * 1000) = UtcStartOfDay(targetDate)

\* C20 (as claimed): when a run has returned with every fetch and database
\* statement succeeding, each upstream message with empty or whitespace-only
\* content that is otherwise valid has passed validation, was handed to the
\* classifier with non-empty content, and has a work item.
C20_EmptyContentNeverDropped ==
    \A n \in Runs :
        (CalledBySync(n) /\ runs[n].pc = "done" /\ faults = 0)
        => \A k \in 1..Len(upstream[runs[n].source]) :
              LET message == upstream[runs[n].source][k]
              IN  ( /\ RawContent(runs[n].source, message) \in {"", " "}
                    /\ AcceptedButForContent(runs[n].source, message, runs[n].targetDate) )
                  => /\ \E i \in 1..Len(runs[n].valid) :
                           /\ runs[n].valid[i] = message
                           /\ sanitizeContent(runs[n].tasks[i].content) # ""
                     /\ RowsBySourceId(runs[n].userId, runs[n].source, message.id) # {}


\* The fetched message could not be dated, and has content.
Undated(source, message) ==
    /\ ~isValidDate(NativeTimestamp(source, message))
    /\ message.id # ""
    /\ RawContent(source, message) \notin {"", " "}

\* C21 (as claimed): when a run without target day has returned with every
\* fetch and database statement succeeding, each fetched message whose
\* timestamp does not parse has a work item, and it is stored with
\* sourceDate absent.
C21_UndatedStoredWithoutDate ==
    \A n \in Runs :
        ( /\ CalledBySync(n) /\ runs[n].pc = "done" /\ faults = 0
          /\ runs[n].targetDate = Undefined )
        => \A k \in 1..Len(upstream[runs[n].source]) :
              LET message == upstream[runs[n].source][k]
                  rows == RowsBySourceId(runs[n].userId, runs[n].source, message.id)
              IN  Undated(runs[n].source, message)
                  => /\ rows # {}
                     /\ \A row \in rows : row.sourceDate = Undefined


\* C22 (as claimed): a run given an invalid target day does not end with a
\* raised error, and when it has returned with every fetch and database
\* statement succeeding it has fetched and handled the messages that a run
\* without target day handles.
C22_InvalidDayIsNoFilter ==
    \A n \in Runs :
        ( /\ runs[n].pc # "idle" /\ runs[n].userId # 0 /\ runs[n].accessToken # ""
          /\ runs[n].targetDate = InvalidDate )
        => /\ runs[n].pc # "raised"
           /\ (runs[n].pc = "done" /\ faults = 0)
                => /\ runs[n].fetched = Len(upstream[runs[n].source])
                   /\ runs[n].valid = Filter(runs[n].source, upstream[runs[n].source],
                                             Undefined)
                   /\ runs[n].created + runs[n].skipped + runs[n].errors
                        = Len(runs[n].valid)


----------------------------------------------------------------------------
(* SpecPush: listeners of two users while items are ingested and edited *)

PushUpstream == [gmail |-> << G1 >>, slack |-> << S1 >>]

PushValues(userId) ==
    [NoRow EXCEPT !.userId = userId, !.sourceType = "manual", !.sourceId = "n1",
                  !.classification = "fyi", !.urgencyScore = 1]

PushUpdates == { [isCompleted |-> TRUE] }

InitPush ==
    /\ upstream = PushUpstream
    /\ InitIngest

\* The listeners: k1 is opened by user 1, k2 by user 12.
PushListeners == { <<"k1", 1>>, <<"k2", 12>> }

\* Requests are served one after the other.
PushStart ==
    /\ Quiescent
    /\ \E source \in Sources : processStart("p1", source, 1, "token", Undefined)

PushWrite(w) ==
    /\ Quiescent
    /\ \/ \E userId \in Users : createWorkItemInsert(w, PushValues(userId))
       \/ \E id \in 1..MaxItems, d \in PushUpdates : updateWorkItemUpdate(w, id, d)
       \/ \E id \in 1..MaxItems : deleteWorkItemSelect(w, id)

NextPush ==
    \/ \E l \in PushListeners : wsConnection(l[1], l[2])
    \/ \E k \in ClientIds : wsClosing(k)
    \/ \E k \in ClientIds : wsClose(k)
    \/ PushStart
    \/ RunSteps("p1", {"urgent"})
    \/ \E w \in Writers : PushWrite(w)
    \/ \E w \in Writers : createWorkItemEnd(w)
    \/ \E w \in Writers : updateWorkItemEnd(w)
    \/ \E w \in Writers : deleteWorkItemDelete(w)
    \/ \E w \in Writers : deleteWorkItemEnd(w)
    \/ \E w \in Writers : WriterReturn(w)

SpecPush == InitPush /\ [][NextPush]_vars

\* The listener k is connected for user u and its socket is open.
Listening(k, u) ==
    clients[k].connected /\ clients[k].open /\ clients[k].user = u

\* C23 (as claimed): a listener has received only messages about the items
\* of its own user (and the greeting), and the message a route broadcasts
\* for a change to the items of user u reaches every open listener of u.
C23_EventsScopedToUser ==
    /\ [](\A k \in ClientIds :
            clients[k].connected
            => \A m \in clients[k].received : m.user \in {0, clients[k].user})
    /\ [][\A w \in Writers :
            (writers[w].pc = "done" /\ writers[w].ok /\ writers'[w].pc = "idle")
            => \A k \in ClientIds :
                  Listening(k, writers[w].item.userId)
                  => RouteMessage(writers[w]) \in clients'[k].received]_vars


----------------------------------------------------------------------------
(* SpecOrder: the steps of a message, with a listener and a filled cache *)

OrderUpstream == [gmail |-> << G1, G2 >>, slack |-> << S1, S2 >>]

\* The body of POST /api/work-items: an item that carries the source id of
\* the first message of a source.
OrderValues ==
    { [NoRow EXCEPT !.userId = 1, !.sourceType = "gmail", !.sourceId = "m1",
                    !.sourceDate = D(10, 1), !.classification = "fyi",
                    !.urgencyScore = 1],
      [NoRow EXCEPT !.userId = 1, !.sourceType = "slack",
                    !.sourceId = "864000.000100",
                    !.sourceDate = D(10, 0), !.classification = "fyi",
                    !.urgencyScore = 1] }

InitOrder ==
    /\ upstream = OrderUpstream
    /\ InitIngest

\* No request is being served.
OrderIdle == Quiescent /\ \A r \in Readers : readers[r].pc = "idle"

OrderStart ==
    /\ OrderIdle
    /\ \E source \in Sources : processStart("p1", source, 1, "token", Undefined)

OrderPost(w) ==
    /\ OrderIdle
    /\ \E values \in OrderValues : createWorkItemInsert(w, values)

OrderRead(r) ==
    /\ OrderIdle
    /\ StorageGetWorkItems(r, 1, NoOptions)

NextOrder ==
    \/ wsConnection("k1", 1)
    \/ \E r \in Readers : OrderRead(r)
    \/ \E r \in Readers : getWorkItemsQuery(r)
    \/ \E r \in Readers : getWorkItemsEnd(r)
    \/ \E r \in Readers : ReaderReturn(r)
    \/ \E w \in Writers : OrderPost(w)
    \/ \E w \in Writers : createWorkItemEnd(w)
    \/ \E w \in Writers : WriterReturn(w)
    \/ OrderStart
    \/ RunSteps("p1", {"urgent"})

SpecOrder == InitOrder /\ [][NextOrder]_vars

\* C25: a message that has been classified has passed its dedup lookup; a
\* message that is being persisted or has an item has been classified; a
\* skipped message was never classified and has no item; only a message
\* that ends as created has an item; and a step of a run that sends a push
\* message is the step of a message whose row is stored, taken with the
\* user's cache entries gone.
C25_StepsInOrder ==
    /\ [](\A n \in Runs : \A i \in 1..MaxLen :
            i <= Len(runs[n].valid)
            => /\ runs[n].tasks[i].analysis # ""
                    => runs[n].tasks[i].pc \notin {"wait", "lookup"}
               /\ (runs[n].tasks[i].pc \in {"insert", "inserted"}
                     \/ runs[n].tasks[i].item # 0)
                    => runs[n].tasks[i].analysis # ""
               /\ runs[n].tasks[i].status = "skipped"
                    => runs[n].tasks[i].analysis = "" /\ runs[n].tasks[i].item = 0
               /\ runs[n].tasks[i].status = "error" => runs[n].tasks[i].item = 0
               /\ runs[n].tasks[i].status = "created"
                    => RowsById(runs[n].tasks[i].item) # {})
    /\ [][(clients' # clients /\ runs' # runs)
            => \E n \in Runs : \E i \in 1..Len(runs[n].valid) :
                  /\ runs[n].tasks[i].pc = "inserted"
                  /\ runs'[n].tasks[i].status = "created"
                  /\ RowsById(runs[n].tasks[i].item) # {}
                  /\ UserKeys(workItemsCache', runs[n].userId) = {}]_vars

\* A Gmail run has returned: its first message was a duplicate and was
\* skipped without classification, its second was created, and the listener
\* holds the sync_progress message.
C25_Witness ==
    \E n \in Runs :
        /\ runs[n].pc = "done"
        /\ Len(runs[n].valid) = 2
        /\ runs[n].tasks[1].status = "skipped"
        /\ runs[n].tasks[2].status = "created"
        /\ WebSocketMessage("sync_progress", 1) \in clients["k1"].received

----------------------------------------------------------------------------
(* SpecSecureFetch: calls of secureFetch, one after the other, against any
   upstream *)

FetchTickSteps == {300}

Statuses == {0, 200, 401, 404, 429, 500}

RetryAfters == {Undefined, 2}

InitSecureFetch ==
    /\ now = Now0
    /\ tz = 0
    /\ workItems = {}
    /\ nextId = 1
    /\ upstream = NoUpstream
    /\ InitIdle

NextSecureFetch ==
    \/ \E service \in {"gmail"} : secureFetchBegin("c1", service)
    \/ secureFetchLimited("c1")
    \/ \E status \in Statuses, retryAfter \in RetryAfters :
          secureFetchResponse("c1", status, retryAfter)
    \/ secureFetchWake("c1")
    \/ secureFetchAbort("c1")
    \/ secureFetchReturn("c1")
    \/ \E d \in FetchTickSteps : Tick(d)

\* The steps the event loop owes a call in progress: its timers fire, and
\* each fetch() settles (a response, a rejection, or the abort).
SecureFetchProgress(c) ==
    \/ secureFetchLimited(c)
    \/ secureFetchWake(c)
    \/ secureFetchAbort(c)
    \/ \E status \in Statuses, retryAfter \in RetryAfters :
          secureFetchResponse(c, status, retryAfter)

SpecSecureFetch ==
    InitSecureFetch /\ [][NextSecureFetch]_vars /\ WF_vars(SecureFetchProgress("c1"))


(* SpecRateLimit: two callers of secureFetch at the same time *)

RateStatuses == {200, 500}

NextRateLimit ==
    \/ \E c \in Calls, service \in {"gmail", "slack"} : secureFetchBegin(c, service)
    \/ \E c \in Calls : secureFetchLimited(c)
    \/ \E c \in Calls, status \in RateStatuses : secureFetchResponse(c, status, Undefined)
    \/ \E c \in Calls : secureFetchWake(c)
    \/ \E c \in Calls : secureFetchReturn(c)
    \/ \E d \in FetchTickSteps : Tick(d)

SpecRateLimit == InitSecureFetch /\ [][NextRateLimit]_vars


----------------------------------------------------------------------------
(* Claims on secureFetch *)

\* C15 (as claimed): once the upstream has answered 401, the call issues no
\* further request and raises the authentication error.
C15_Fatal401 ==
    \A c \in Calls :
        oauth.calls[c].got401
        => /\ ~oauth.calls[c].sentAfter401
           /\ oauth.calls[c].pc = "raised"
           /\ oauth.calls[c].error = "auth"

\* A call of secureFetch is in progress.
InProgress(c) == oauth.calls[c].pc \in {"limit", "fetch", "sleep"}

\* A call of secureFetch has ended: a response returned or an error thrown.
Ended(c) == oauth.calls[c].pc \in {"done", "raised"}

\* C16: whatever the upstream answers, a call of secureFetch issues at most
\* MAX_RETRIES requests, returns only a response with ok status, otherwise
\* raises an error, and every call that has begun ends.
C16_AtMostThreeAttemptsThenEnds ==
    /\ [](\A c \in Calls :
            /\ oauth.calls[c].requests <= MAX_RETRIES
            /\ oauth.calls[c].attempt <= MAX_RETRIES
            /\ oauth.calls[c].pc = "done" => oauth.calls[c].ok
            /\ oauth.calls[c].pc = "raised"
                 => ~oauth.calls[c].ok /\ oauth.calls[c].error # "")
    /\ (InProgress("c1") ~> Ended("c1"))

\* A call has raised after three requests that were all answered 429 or
\* 5xx-then-429: the loop ran out.
C16_Witness ==
    \E c \in Calls :
        /\ oauth.calls[c].pc = "raised"
        /\ oauth.calls[c].error = "exhausted"
        /\ oauth.calls[c].requests = MAX_RETRIES

\* C18 (as claimed): any two requests sent to one service start at least
\* RATE_LIMIT_DELAY apart.
C18_RequestsSpacedByDelay ==
    \A service \in {"gmail", "slack"} :
        oauth.sent[service].gap # Undefined
        => oauth.sent[service].gap >= RATE_LIMIT_DELAY


----------------------------------------------------------------------------
(* SpecFetcher: one run of a fetcher at a time, in any server timezone *)

AccessTokens == {"", "xoxp-1"}

ExpiresAts == {Undefined, Now0 - HOUR, Now0 + 2 * 60000, Now0 + DAY}

FetchTargetDates == {Undefined, InvalidDate, D(10, 0), D(10, 15), D(10, 20)}

FetchStatuses == {0, 200, 401, 500}

Bodies == {"unparsable", "error", "nolist", "list"}

InitFetcher ==
    /\ now = Now0
    /\ tz \in TzOffsets
    /\ workItems = {}
    /\ nextId = 1
    /\ upstream = NoUpstream
    /\ InitIdle

NextFetcher ==
    \/ \E source \in {"gmail", "slack"}, accessToken \in AccessTokens,
          expiresAt \in ExpiresAts, targetDate \in FetchTargetDates :
          fetchBegin(source, accessToken, expiresAt, targetDate)
    \/ secureFetchLimited("c1")
    \/ \E status \in FetchStatuses : secureFetchResponse("c1", status, Undefined)
    \/ secureFetchWake("c1")
    \/ \E body \in Bodies : fetchListed(body)
    \/ fetchReturn

SpecFetcher == InitFetcher /\ [][NextFetcher]_vars

\* C17 (as claimed): a run of either fetcher that met a missing or invalid
\* credential, a malformed response or an upstream call failing after its
\* retries has returned the empty list and has not raised.
C17_FailuresYieldEmptyList ==
    oauth.fetch.cause \in {"credential", "malformed", "exhausted"}
    => oauth.fetch.pc = "done" /\ oauth.fetch.result = "empty"

\* C19 (as claimed): the day range of the Gmail list request is the UTC day
\* of the target: after: is the UTC date of the target day, before: the UTC
\* date of the day that follows.
C19_GmailRangeIsUtcDay ==
    (oauth.fetch.source = "gmail" /\ oauth.fetch.pc = "call"
        /\ oauth.fetch.targetDate # Undefined)
    => /\ oauth.fetch.query.after * DAY = UtcStartOfDay(oauth.fetch.targetDate)
       /\ oauth.fetch.query.before * DAY = UtcStartOfDay(oauth.fetch.targetDate) + DAY

====
